---- MODULE Spec2Model ----
(***************************************************************************)
(* Model of the spreadsheet import of the sadia back end:                  *)
(*   ImportService.importWorkersFromExcel  and                             *)
(*   ImportService.importProductsFromExcel                                 *)
(* (src/backend/src/controllers/import.controller.js).                     *)
(*                                                                         *)
(* A cell of the grid is a record [t, v]: t is the JavaScript type of the  *)
(* cell ("s" string, "n" number) and v is the text String(cell) yields.    *)
(* Texts are TLA+ strings; trimming, upper-casing, substring search and    *)
(* number parsing are computed character by character.  Amounts of money   *)
(* are integers counting hundredths.  Optional (nullable) fields are       *)
(* sequences of length 0 (null) or 1.                                      *)
(***************************************************************************)
EXTENDS Integers, Sequences, FiniteSets, TLC

VARIABLES
    data,            \* the grid read from the first sheet (array of rows)
    pc,              \* "idle", "scanW", "scanP"
    i,               \* loop index, 0-based as in the source
    currentSite,     \* importWorkersFromExcel: let currentSite
    headerRowIndex,  \* let headerRowIndex
    colMap,          \* const colMap
    stats,           \* const stats = {total, created, updated, errors}
    results,         \* statistics objects returned by the finished imports
    now,             \* the day new Date() reads during the running import
    workers,         \* Worker table, row k has id k
    products,        \* Product table
    categories,      \* Category table
    calls,           \* the locals of the imports that run concurrently
    salaries,        \* Salary table, row k has id k
    response,        \* what the worker controller answered to the last request
    page             \* the state of the StockManagement component

vars == <<data, pc, i, currentSite, headerRowIndex, colMap, stats, results,
          now, workers, products, categories, calls, salaries, response, page>>

-----------------------------------------------------------------------------
(* Bounds of the model *)

MaxRows == 3      \* rows of a worker sheet
MaxPRows == 4     \* rows of a product sheet
MaxRuns == 2      \* imports run one after the other
MaxThrows == 1    \* store calls that throw, over all the imports

-----------------------------------------------------------------------------
(* JavaScript strings *)

Ch(s, k) == SubSeq(s, k, k)

DigitChars == "0123456789"

\* the upper-case form of each lower-case letter
UpperAlpha ==
    [a |-> "A", b |-> "B", c |-> "C", d |-> "D", e |-> "E", f |-> "F", g |-> "G",
     h |-> "H", i |-> "I", j |-> "J", k |-> "K", l |-> "L", m |-> "M", n |-> "N",
     o |-> "O", p |-> "P", q |-> "Q", r |-> "R", s |-> "S", t |-> "T", u |-> "U",
     v |-> "V", w |-> "W", x |-> "X", y |-> "Y", z |-> "Z"]

IsSpace(c) == c = " "

UpperCh(c) == IF c \in DOMAIN UpperAlpha THEN UpperAlpha[c] ELSE c

RECURSIVE ToUpperCase(_)
ToUpperCase(s) ==
    IF s = "" THEN "" ELSE UpperCh(Ch(s, 1)) \o ToUpperCase(Tail(s))

RECURSIVE TrimStart(_)
TrimStart(s) ==
    IF s # "" /\ IsSpace(Ch(s, 1)) THEN TrimStart(Tail(s)) ELSE s

RECURSIVE TrimEnd(_)
TrimEnd(s) ==
    IF s # "" /\ IsSpace(Ch(s, Len(s)))
    THEN TrimEnd(SubSeq(s, 1, Len(s) - 1)) ELSE s

Trim(s) == TrimEnd(TrimStart(s))

\* String.prototype.includes
Includes(s, sub) ==
    \E k \in 0..(Len(s) - Len(sub)) : SubSeq(s, k + 1, k + Len(sub)) = sub

StartsWith(s, pre) == Len(pre) <= Len(s) /\ SubSeq(s, 1, Len(pre)) = pre

\* s.replace(/\s/g, '')
RECURSIVE RemoveSpaces(_)
RemoveSpaces(s) ==
    IF s = "" THEN ""
    ELSE IF IsSpace(Ch(s, 1)) THEN RemoveSpaces(Tail(s))
    ELSE Ch(s, 1) \o RemoveSpaces(Tail(s))

\* ReplaceFirstComma leaving the comma in place
ReplaceFirstComma_Kept(s) == s

\* s.replace(',', '.'): the first comma only
RECURSIVE ReplaceFirstComma(_)
ReplaceFirstComma(s) ==
    IF s = "" THEN ""
    ELSE IF Ch(s, 1) = "," THEN "." \o Tail(s)
    ELSE Ch(s, 1) \o ReplaceFirstComma(Tail(s))

IsDigit(c) == \E k \in 1..10 : Ch(DigitChars, k) = c
DigitVal(c) == (CHOOSE k \in 1..10 : Ch(DigitChars, k) = c) - 1

\* the longest prefix of s made of digits
RECURSIVE DigitsPrefix(_)
DigitsPrefix(s) ==
    IF s # "" /\ IsDigit(Ch(s, 1)) THEN Ch(s, 1) \o DigitsPrefix(Tail(s)) ELSE ""

RECURSIVE DigitsValue(_)
DigitsValue(s) ==
    IF s = "" THEN 0
    ELSE 10 * DigitsValue(SubSeq(s, 1, Len(s) - 1)) + DigitVal(Ch(s, Len(s)))

\* String(n) for a natural number n
RECURSIVE NatToString(_)
NatToString(n) ==
    IF n < 10 THEN Ch(DigitChars, n + 1)
    ELSE NatToString(n \div 10) \o Ch(DigitChars, (n % 10) + 1)

\* parseFloat(s): the longest numeric prefix [sign] digits [. digits], in
\* hundredths; nan when there is no such prefix.
ParseFloat(s0) ==
    LET s    == TrimStart(s0)
        neg  == s # "" /\ Ch(s, 1) = "-"
        sgn  == s # "" /\ (Ch(s, 1) = "-" \/ Ch(s, 1) = "+")
        body == IF sgn THEN Tail(s) ELSE s
        ip   == DigitsPrefix(body)
        rest == SubSeq(body, Len(ip) + 1, Len(body))
        fp   == IF rest # "" /\ Ch(rest, 1) = "." THEN DigitsPrefix(Tail(rest)) ELSE ""
        f2   == SubSeq(fp \o "00", 1, 2)
        mag  == 100 * DigitsValue(ip) + DigitsValue(f2)
    IN  IF ip = "" /\ fp = "" THEN [nan |-> TRUE, val |-> 0]
        ELSE [nan |-> FALSE, val |-> IF neg THEN 0 - mag ELSE mag]

\* parseFloat(s) || 0
ParseFloatOrZero(s) == LET r == ParseFloat(s) IN IF r.nan THEN 0 ELSE r.val

-----------------------------------------------------------------------------
(* Cells and rows *)

S(x) == [t |-> "s", v |-> x]
N(x) == [t |-> "n", v |-> x]
E == S("")

\* String(c)
JsString(c) == c.v

\* the truthiness of a cell: '' and 0 are falsy
Truthy(c) == IF c.t = "n" THEN ParseFloat(c.v).val # 0 ELSE c.v # ""

None == <<>>
Some(x) == <<x>>

\* row.map(c => String(c).trim().toUpperCase())
RowStr(row) == [k \in 1..Len(row) |-> ToUpperCase(Trim(JsString(row[k])))]

\* row.filter(c => c && String(c).trim() !== '')
NonEmptyCells(row) == SelectSeq(row, LAMBDA c : Truthy(c) /\ Trim(JsString(c)) # "")

\* Array.prototype.includes
ArrIncludes(arr, x) == \E k \in 1..Len(arr) : arr[k] = x

\* row[idx] for a 0-based index the column map holds
CellAt(row, idx) == row[idx + 1]

-----------------------------------------------------------------------------
(* Dates.  A Date is [valid, t]: t counts hundredths of a day since        *)
(* 1970-01-01T00:00Z (t * 864000 is the millisecond time value).           *)

InvalidDate == [valid |-> FALSE, t |-> 0]
DateAt(t) == [valid |-> TRUE, t |-> t]

\* s.split(sep), sep a single character
RECURSIVE SplitAcc(_, _, _)
SplitAcc(s, sep, cur) ==
    IF s = "" THEN <<cur>>
    ELSE IF Ch(s, 1) = sep THEN <<cur>> \o SplitAcc(Tail(s), sep, "")
    ELSE SplitAcc(Tail(s), sep, cur \o Ch(s, 1))

Split(s, sep) == SplitAcc(s, sep, "")

AllDigits(s) == s # "" /\ DigitsPrefix(s) = s

\* days from 1970-01-01 to the civil date y-m-d (proleptic Gregorian)
DaysFromCivil(y, m, d) ==
    LET yy  == IF m <= 2 THEN y - 1 ELSE y
        era == yy \div 400
        yoe == yy - era * 400
        mp  == (m + 9) % 12
        doy == (153 * mp + 2) \div 5 + d - 1
        doe == yoe * 365 + yoe \div 4 - yoe \div 100 + doy
    IN  era * 146097 + doe - 719468

\* new Date(text) for a text of the form Y-M-D; anything else is not a date.
\* The engine accepts a day of 1..31 in any month and rolls it over.
DateFromString(s) ==
    LET p == Split(s, "-")
    IN  IF Len(p) = 3 /\ AllDigits(p[1]) /\ AllDigits(p[2]) /\ AllDigits(p[3])
           /\ Len(p[1]) = 4 /\ Len(p[2]) <= 2 /\ Len(p[3]) <= 2
           /\ DigitsValue(p[2]) \in 1..12 /\ DigitsValue(p[3]) \in 1..31
        THEN DateAt(100 * DaysFromCivil(DigitsValue(p[1]), DigitsValue(p[2]),
                                        DigitsValue(p[3])))
        ELSE InvalidDate

\* parseExcelDate counting the days of a serial from 1970-01-01
parseExcelDate_NoOffset(excelDate) ==
    IF ~Truthy(excelDate) THEN None
    ELSE IF excelDate.t = "n" THEN Some(DateAt(ParseFloat(excelDate.v).val))
    ELSE None

\* ImportService.parseExcelDate; the result is None (null) or Some(Date)
parseExcelDate(excelDate) ==
    IF ~Truthy(excelDate) THEN None
    ELSE IF excelDate.t = "n"
    THEN Some(DateAt(ParseFloat(excelDate.v).val - 2556900))
    ELSE LET parts == Split(excelDate.v, "/")
         IN  IF Len(parts) = 3
             THEN Some(DateFromString(parts[3] \o "-" \o parts[2] \o "-" \o parts[1]))
             ELSE LET d == DateFromString(excelDate.v)
                  IN  IF d.valid THEN Some(d) ELSE None

-----------------------------------------------------------------------------
(* importWorkersFromExcel: the scan of one row *)

DefaultSite == "SIEGE"

WColMapInit ==
    [prenom |-> -1, nom |-> -1, cin |-> -1, telephone |-> -1, adresse |-> -1,
     salaire |-> -1, date_naissance |-> -1]

StatsInit == [total |-> 0, created |-> 0, updated |-> 0, errors |-> <<>>]

\* WLocals with the header taken to be the first row and the names in the
\* first two columns, as the worker controller's import presets its indices
WLocals_Preset ==
    [currentSite |-> DefaultSite, stats |-> StatsInit, headerRowIndex |-> 0,
     colMap |-> [WColMapInit EXCEPT !.prenom = 0, !.nom = 1]]

\* lines 41-61: the locals of importWorkersFromExcel before the loop
WLocals ==
    [currentSite |-> DefaultSite, stats |-> StatsInit, headerRowIndex |-> -1,
     colMap |-> WColMapInit]

\* Counted with the increment left out
Counted_Skipped(st) == st

\* lines 115 and 233: stats.total++
Counted(st) == [st EXCEPT !.total = @ + 1]

\* PotentialSite without the trim
PotentialSite_Untrimmed(row) == JsString(NonEmptyCells(row)[1])

\* line 70: the text of the only non-empty cell
PotentialSite(row) == Trim(JsString(NonEmptyCells(row)[1]))

\* lines 68-78: the row is a site banner
WIsSiteRow(row) ==
    LET nonEmptyCells == NonEmptyCells(row)
    IN  /\ Len(nonEmptyCells) = 1
        /\ LET potentialSite == PotentialSite(row)
           IN  /\ Len(potentialSite) > 3
               /\ ~ArrIncludes(RowStr(row), "PRENOMS")
               /\ ~Includes(potentialSite, "TECHNICIENS DE SURFACE")

\* line 81
WIsHeaderRow(row) ==
    LET rowStr == RowStr(row)
    IN  ArrIncludes(rowStr, "PRENOMS") /\ ArrIncludes(rowStr, "NOMS")

\* lines 85-91: the effect of one header cell on the column map
WMapColumn(cm, colName, idx) ==
    IF Includes(colName, "PRENOM") THEN [cm EXCEPT !.prenom = idx]
    ELSE IF colName = "NOMS" THEN [cm EXCEPT !.nom = idx]
    ELSE IF Includes(colName, "N.I") \/ Includes(colName, "CIN") THEN [cm EXCEPT !.cin = idx]
    ELSE IF Includes(colName, "TELEPHONE") THEN [cm EXCEPT !.telephone = idx]
    ELSE IF Includes(colName, "ADRESSE") THEN [cm EXCEPT !.adresse = idx]
    ELSE IF Includes(colName, "SALAIRE") THEN [cm EXCEPT !.salaire = idx]
    ELSE IF Includes(colName, "NAISSANCE") THEN [cm EXCEPT !.date_naissance = idx]
    ELSE cm

\* line 84: rowStr.forEach over the cells 1..k
RECURSIVE WMapColumns(_, _, _)
WMapColumns(cm, rowStr, k) ==
    IF k = 0 THEN cm
    ELSE WMapColumn(WMapColumns(cm, rowStr, k - 1), rowStr[k], k - 1)

\* WIsDataRow without the test of line 104 on the name cells
WIsDataRow_NoNameCheck(row, idx, hri, cm) ==
    /\ hri # -1 /\ idx > hri
    /\ cm.prenom # -1 /\ cm.nom # -1

\* lines 98-104: the row is read as worker data
WIsDataRow(row, idx, hri, cm) ==
    /\ hri # -1 /\ idx > hri
    /\ cm.prenom # -1 /\ cm.nom # -1
    /\ Truthy(CellAt(row, cm.prenom)) /\ Truthy(CellAt(row, cm.nom))

\* WIsInnerSiteRow taking a row of several cells and a text of three letters
WIsInnerSiteRow_AnyCount(row) ==
    Len(NonEmptyCells(row)) >= 1 /\ Len(PotentialSite(row)) >= 3

\* lines 107-113: the second site check, inside the data rows
WIsInnerSiteRow(row) ==
    LET nonEmptyCells == NonEmptyCells(row)
    IN  Len(nonEmptyCells) = 1 /\ Len(PotentialSite(row)) > 3

\* lines 118-138: workerData
WorkerData(row, cm, site, today) ==
    LET has(c) == c # -1 /\ Truthy(CellAt(row, c))
    IN  [prenom |-> Trim(JsString(CellAt(row, cm.prenom))),
         nom |-> Trim(JsString(CellAt(row, cm.nom))),
         poste |-> "Technicien de surface",
         site_affectation |-> site,
         statut |-> "ACTIF",
         date_embauche |-> today,
         date_naissance |-> IF cm.date_naissance # -1
                            THEN parseExcelDate(CellAt(row, cm.date_naissance))
                            ELSE None,
         email |-> None,
         cin |-> IF has(cm.cin) THEN Some(Trim(JsString(CellAt(row, cm.cin)))) ELSE None,
         contact |-> IF has(cm.telephone)
                     THEN Some(Trim(RemoveSpaces(JsString(CellAt(row, cm.telephone)))))
                     ELSE None,
         adresse |-> IF has(cm.adresse)
                     THEN Some(Trim(JsString(CellAt(row, cm.adresse)))) ELSE None,
         salaire_base |-> IF has(cm.salaire)
                          THEN ParseFloatOrZero(ReplaceFirstComma(
                                   RemoveSpaces(JsString(CellAt(row, cm.salaire)))))
                          ELSE 0]

\* the truthiness of an optional text: null, undefined and '' are falsy
TruthyOpt(o) == o # None /\ o[1] # ""

\* a || b on optional values
OrElse(a, b) == IF a # None /\ a[1] # "" THEN a ELSE b

\* WByCin with the national ID compared to the surname column
WByCin_WrongColumn(ws, cin) == {k \in 1..Len(ws) : <<ws[k].nom>> = cin}

\* Worker.findOne({ where: { cin } }): the ids of the matching records
WByCin(ws, cin) == {k \in 1..Len(ws) : ws[k].cin = cin}

\* Worker.findOne({ where: { prenom, nom, contact } })
WByName(ws, wd) ==
    {k \in 1..Len(ws) : ws[k].prenom = wd.prenom /\ ws[k].nom = wd.nom
                        /\ ws[k].contact = wd.contact}

\* WExisting falling back to the name match whenever the lookup by national
\* ID finds nothing, even for a row that has a national ID
WExisting_FallbackOnMiss(ws, wd) ==
    IF TruthyOpt(wd.cin) /\ WByCin(ws, wd.cin) # {} THEN WByCin(ws, wd.cin)
    ELSE IF TruthyOpt(wd.contact) /\ WByName(ws, wd) # {} THEN WByName(ws, wd)
    ELSE {0}

\* lines 141-151: the records existingWorker may be; {0} stands for null
WExisting(ws, wd) ==
    IF TruthyOpt(wd.cin)
    THEN IF WByCin(ws, wd.cin) # {} THEN WByCin(ws, wd.cin) ELSE {0}
    ELSE IF TruthyOpt(wd.contact) /\ WByName(ws, wd) # {} THEN WByName(ws, wd)
    ELSE {0}

\* WUpdate passing the whole of workerData to update, as the product import does
WUpdate_WholeRow(w, wd) ==
    [wd EXCEPT !.cin = IF wd.cin # None THEN wd.cin ELSE w.cin,
               !.contact = IF wd.contact # None THEN wd.contact ELSE w.contact,
               !.adresse = IF wd.adresse # None THEN wd.adresse ELSE w.adresse]

\* lines 154-160: existingWorker.update({...})
WUpdate(w, wd) ==
    [w EXCEPT !.site_affectation = wd.site_affectation,
              !.salaire_base = IF wd.salaire_base > 0 THEN wd.salaire_base ELSE w.salaire_base,
              !.adresse = OrElse(wd.adresse, w.adresse),
              !.contact = OrElse(wd.contact, w.contact),
              !.date_naissance = IF wd.date_naissance # None THEN wd.date_naissance
                                 ELSE w.date_naissance]

\* err.message
ErrMessage == "store error"

\* WLigne with the 0-based loop index as line number
WLigne_ZeroBased(idx, prenom, nom) ==
    "Ligne " \o NatToString(idx) \o " (" \o JsString(prenom) \o " "
        \o JsString(nom) \o "): " \o ErrMessage

\* line 168
WLigne(idx, prenom, nom) ==
    "Ligne " \o NatToString(idx + 1) \o " (" \o JsString(prenom) \o " "
        \o JsString(nom) \o "): " \o ErrMessage

-----------------------------------------------------------------------------
(* The worker sheets the model imports: seven columns *)

WHeader ==
    <<S("PRENOMS"), S("NOMS"), S("N.I.N"), S("TELEPHONE"), S("ADRESSE"),
      S("SALAIRE"), S("DATE DE NAISSANCE")>>
WHeaderSwapped == <<S("Noms"), S(" Prenoms"), E, E, E, E, E>>
WBanner == <<S(" Chantier Nord "), E, E, E, E, E, E>>
WKeywordOnly == <<S("prenoms"), E, E, E, E, E, E>>
WKeywordBlank == <<S("LES TECHNICIENS DE SURFACE"), S(" "), E, E, E, E, E>>
WShort == <<S("Ali"), E, E, E, E, E, E>>
WFull ==
    <<S("Awa"), S("Diop"), S("1234"), S("77 100"), S("Dakar"), S("3 500,50"),
      N("44197")>>
WNoCin == <<S(" Awa "), S("Diop"), E, N("77100"), E, E, E>>
WCinOnly == <<S("Awa"), S("Diop"), N("1234"), E, S(" "), S("abc"), E>>
WOtherCin == <<S("Awa"), S("Diop"), S("9999"), S("77100"), E, S("-5"), E>>

WRows ==
    {WHeader, WHeaderSwapped, WBanner, WKeywordOnly, WKeywordBlank, WShort,
     WFull, WNoCin, WCinOnly, WOtherCin}

WGrids == UNION {[1..n -> WRows] : n \in 0..MaxRows}

\* a worker entered through the application before any import
WorkerBefore ==
    [prenom |-> "Awa", nom |-> "Diop", poste |-> "Gardien",
     site_affectation |-> "Depot", statut |-> "SUSPENDU", date_embauche |-> 0,
     date_naissance |-> Some(DateAt(1000000)), email |-> None,
     cin |-> Some("1234"), contact |-> Some("76000"), adresse |-> Some("Thies"),
     salaire_base |-> 200000]

-----------------------------------------------------------------------------
(* importWorkersFromExcel *)

scan == <<i, currentSite, headerRowIndex, colMap, stats>>

\* the store calls that have thrown so far: each one left a message
RECURSIVE ErrorsIn(_)
ErrorsIn(rs) == IF rs = <<>> THEN 0 ELSE Len(Head(rs).errors) + ErrorsIn(Tail(rs))

MayThrow == Len(stats.errors) + ErrorsIn(results) < MaxThrows
store == <<workers, products, categories>>

\* what no import touches: the Salary table, the answers of the worker
\* controller's other routes and the stock page
aside == <<salaries, response, page>>

\* lines 33-61: the call, up to the loop
StartWorkers ==
    /\ pc = "idle"
    /\ Len(results) < MaxRuns
    /\ pc' = "scanW"
    /\ i' = 0
    /\ currentSite' = WLocals.currentSite
    /\ headerRowIndex' = WLocals.headerRowIndex
    /\ colMap' = WLocals.colMap
    /\ stats' = WLocals.stats
    /\ now' = now + 1
    /\ UNCHANGED <<data, results, store, calls, aside>>

\* Caught with updated incremented before the awaited write, so that a row
\* that fails is counted as updated too
Caught_Counted(st, msg) == [st EXCEPT !.errors = Append(@, msg), !.updated = @ + 1]

\* lines 168 and 268: stats.errors.push(...)
Caught(st, msg) == [st EXCEPT !.errors = Append(@, msg)]

\* WorkerDataRow with the failure raised after Worker.create has written
WorkerDataRow_LateThrow(row, thrown) ==
    LET wd == WorkerData(row, colMap, currentSite, now)
    IN  IF thrown
        THEN /\ stats' = Caught(Counted(stats), ErrMessage)
             /\ workers' = Append(workers, wd)
        ELSE /\ workers' = Append(workers, wd)
             /\ stats' = [Counted(stats) EXCEPT !.created = @ + 1]

\* WorkerDataRow with a failure undoing the write of the row before
WorkerDataRow_Rollback(row, thrown) ==
    LET wd == WorkerData(row, colMap, currentSite, now)
    IN  IF thrown
        THEN /\ stats' = Caught(Counted(stats), ErrMessage)
             /\ workers' = SubSeq(workers, 1, Len(workers) - 1)
        ELSE /\ workers' = Append(workers, wd)
             /\ stats' = [Counted(stats) EXCEPT !.created = @ + 1]

\* lines 115-169: a data row; thrown tells whether a store call throws
WorkerDataRow(row, thrown) ==
    LET wd == WorkerData(row, colMap, currentSite, now)
    IN  IF thrown
        THEN /\ stats' = Caught(Counted(stats),
                                WLigne(i, CellAt(row, colMap.prenom),
                                       CellAt(row, colMap.nom)))
             /\ UNCHANGED workers
        ELSE \E e \in WExisting(workers, wd) :
                IF e # 0
                THEN /\ workers' = [workers EXCEPT ![e] = WUpdate(@, wd)]
                     /\ stats' = [Counted(stats) EXCEPT !.updated = @ + 1]
                ELSE /\ workers' = Append(workers, wd)
                     /\ stats' = [Counted(stats) EXCEPT !.created = @ + 1]

\* lines 63-171: one iteration of the loop
WorkerRow ==
    /\ pc = "scanW"
    /\ i < Len(data)
    /\ i' = i + 1
    /\ LET row == data[i + 1]
       IN  IF WIsSiteRow(row)
           THEN /\ currentSite' = PotentialSite(row)
                /\ UNCHANGED <<headerRowIndex, colMap, stats, workers>>
           ELSE IF WIsHeaderRow(row)
           THEN /\ headerRowIndex' = i
                /\ colMap' = WMapColumns(colMap, RowStr(row), Len(row))
                /\ UNCHANGED <<currentSite, stats, workers>>
           ELSE IF ~WIsDataRow(row, i, headerRowIndex, colMap)
           THEN UNCHANGED <<currentSite, headerRowIndex, colMap, stats, workers>>
           ELSE IF WIsInnerSiteRow(row)
           THEN /\ currentSite' = PotentialSite(row)
                /\ UNCHANGED <<headerRowIndex, colMap, stats, workers>>
           ELSE /\ \E thrown \in BOOLEAN :
                      /\ thrown => MayThrow
                      /\ WorkerDataRow(row, thrown)
                /\ UNCHANGED <<currentSite, headerRowIndex, colMap>>
    /\ UNCHANGED <<data, pc, results, now, products, categories, calls, aside>>

\* WorkerReturn handing no statistics back
WorkerReturn_NoStats ==
    /\ pc = "scanW"
    /\ i = Len(data)
    /\ pc' = "idle"
    /\ UNCHANGED <<data, scan, results, now, store, calls, aside>>

\* line 173: return stats
WorkerReturn ==
    /\ pc = "scanW"
    /\ i = Len(data)
    /\ pc' = "idle"
    /\ results' = Append(results, stats)
    /\ UNCHANGED <<data, scan, now, store, calls, aside>>

InitW ==
    /\ data \in WGrids
    /\ pc = "idle"
    /\ i = 0
    /\ currentSite = DefaultSite
    /\ headerRowIndex = -1
    /\ colMap = WColMapInit
    /\ stats = StatsInit
    /\ results = <<>>
    /\ now = 0
    /\ workers \in {<<>>, <<WorkerBefore>>}
    /\ products = <<>>
    /\ categories = <<>>
    /\ calls = <<>>
    /\ salaries = <<>>
    /\ response = <<>>
    /\ page = <<>>

NextW == StartWorkers \/ WorkerRow \/ WorkerReturn

SpecW == InitW /\ [][NextW]_vars

-----------------------------------------------------------------------------
(* importProductsFromExcel: the scan of one row *)

PColMapInit ==
    [code |-> -1, nom |-> -1, categorie |-> -1, unite |-> -1, seuil |-> -1,
     description |-> -1]

\* parseInt(s): the longest prefix [sign] digits; nan when there is none
ParseInt(s0) ==
    LET s    == TrimStart(s0)
        neg  == s # "" /\ Ch(s, 1) = "-"
        sgn  == s # "" /\ (Ch(s, 1) = "-" \/ Ch(s, 1) = "+")
        body == IF sgn THEN Tail(s) ELSE s
        ip   == DigitsPrefix(body)
    IN  IF ip = "" THEN [nan |-> TRUE, val |-> 0]
        ELSE [nan |-> FALSE, val |-> IF neg THEN 0 - DigitsValue(ip) ELSE DigitsValue(ip)]

\* line 214
PIsHeaderRow(row) ==
    LET rowStr == RowStr(row)
    IN  \/ ArrIncludes(rowStr, "NOM DU PRODUIT")
        \/ /\ ArrIncludes(rowStr, "CODE")
           /\ \E k \in 1..Len(rowStr) : Includes(rowStr[k], "CAT")

\* lines 217-222
PMapColumn(cm, colName, idx) ==
    IF Includes(colName, "CODE") THEN [cm EXCEPT !.code = idx]
    ELSE IF Includes(colName, "NOM") THEN [cm EXCEPT !.nom = idx]
    ELSE IF Includes(colName, "CAT") THEN [cm EXCEPT !.categorie = idx]
    ELSE IF Includes(colName, "UNIT") THEN [cm EXCEPT !.unite = idx]
    ELSE IF Includes(colName, "SEUIL") THEN [cm EXCEPT !.seuil = idx]
    ELSE IF Includes(colName, "DESC") THEN [cm EXCEPT !.description = idx]
    ELSE cm

\* line 216
RECURSIVE PMapColumns(_, _, _)
PMapColumns(cm, rowStr, k) ==
    IF k = 0 THEN cm
    ELSE PMapColumn(PMapColumns(cm, rowStr, k - 1), rowStr[k], k - 1)

\* lines 227-231
PIsDataRow(row, idx, hri, cm) ==
    /\ hri # -1 /\ idx > hri
    /\ cm.nom # -1
    /\ Truthy(CellAt(row, cm.nom))

DefaultUnite == "Unite"
DefaultSeuil == 5

\* lines 235-243: productData without category_id
ProductData(row, cm) ==
    LET has(c) == c # -1 /\ Truthy(CellAt(row, c))
        seuil  == IF cm.seuil # -1 THEN ParseInt(JsString(CellAt(row, cm.seuil)))
                  ELSE [nan |-> TRUE, val |-> 0]
    IN  [nom |-> Trim(JsString(CellAt(row, cm.nom))),
         description |-> IF cm.description # -1
                         THEN Some(Trim(JsString(CellAt(row, cm.description))))
                         ELSE None,
         unite |-> IF has(cm.unite) THEN Trim(JsString(CellAt(row, cm.unite)))
                   ELSE DefaultUnite,
         seuil_alerte |-> IF seuil.nan \/ seuil.val = 0 THEN DefaultSeuil ELSE seuil.val,
         statut |-> "OK",
         quantite_actuelle |-> 0,
         code_produit |-> IF has(cm.code) THEN Some(Trim(JsString(CellAt(row, cm.code))))
                          ELSE None]

\* line 246: the row names a category
PHasCategory(row, cm) == cm.categorie # -1 /\ Truthy(CellAt(row, cm.categorie))

\* line 247
CatName(row, cm) == Trim(JsString(CellAt(row, cm.categorie)))

\* Category.findOne({ where: { nom } })
CatByName(cs, nm) == {k \in 1..Len(cs) : cs[k].nom = nm}

\* line 250
NewCategory(nm) == [nom |-> nm, description |-> "Importe via Excel"]

\* Product.findOne({ where: { code_produit } }) and ({ where: { nom } })
PByCode(ps, code) == {k \in 1..Len(ps) : ps[k].code_produit = code}
PByName(ps, nm) == {k \in 1..Len(ps) : ps[k].nom = nm}

\* lines 256-258: the records existingProduct may be; {0} stands for null
PExisting(ps, pd) ==
    IF TruthyOpt(pd.code_produit) /\ PByCode(ps, pd.code_produit) # {}
    THEN PByCode(ps, pd.code_produit)
    ELSE IF PByName(ps, pd.nom) # {} THEN PByName(ps, pd.nom)
    ELSE {0}

\* line 261: existingProduct.update(productData); cat is None when
\* productData has no category_id
PUpdate(p, pd, cat) ==
    [p EXCEPT !.nom = pd.nom,
              !.description = pd.description,
              !.unite = pd.unite,
              !.seuil_alerte = pd.seuil_alerte,
              !.statut = pd.statut,
              !.quantite_actuelle = pd.quantite_actuelle,
              !.code_produit = pd.code_produit,
              !.category_id = IF cat # None THEN cat ELSE @]

\* line 264: Product.create(productData)
PCreate(pd, cat) ==
    [nom |-> pd.nom, description |-> pd.description, unite |-> pd.unite,
     seuil_alerte |-> pd.seuil_alerte, statut |-> pd.statut,
     quantite_actuelle |-> pd.quantite_actuelle, code_produit |-> pd.code_produit,
     category_id |-> cat]

\* line 268
PLigne(idx, nom) ==
    "Ligne " \o NatToString(idx + 1) \o " (" \o JsString(nom) \o "): " \o ErrMessage

-----------------------------------------------------------------------------
(* The product sheets the model imports: six columns *)

PHeader ==
    <<S("Code"), S("Nom du produit"), S("Categorie"), S("Unite"), S("Seuil"),
      S("Description")>>
PSavon == <<S("P1"), S("Savon"), S("Hygiene"), S("Carton"), N("10"), S("liquide")>>
PSavonP2 == <<S("P2"), S(" Savon"), E, E, S("abc"), E>>
PJavelP2 == <<S("P2"), S("Javel"), S("Entretien"), E, E, E>>
PNoName == <<S("P1"), E, S("Hygiene"), E, E, E>>

PRows == {PHeader, PSavon, PSavonP2, PJavelP2, PNoName}

PGrids == UNION {[1..n -> PRows] : n \in 0..MaxPRows}

\* a category and a product entered through the application before any import
CategoryBefore == [nom |-> "Hygiene", description |-> "Produits d'hygiene"]
ProductBefore ==
    [nom |-> "Savon", description |-> Some("en stock"), unite |-> "Bidon",
     seuil_alerte |-> 8, statut |-> "ALERTE", quantite_actuelle |-> 3,
     code_produit |-> Some("P1"), category_id |-> Some(1)]

-----------------------------------------------------------------------------
(* importProductsFromExcel *)

\* lines 198-207
StartProducts ==
    /\ pc = "idle"
    /\ Len(results) < MaxRuns
    /\ pc' = "scanP"
    /\ i' = 0
    /\ headerRowIndex' = -1
    /\ colMap' = PColMapInit
    /\ stats' = StatsInit
    /\ UNCHANGED <<data, currentSite, results, now, store, calls, aside>>

\* lines 233-269: a data row; thrown is "no", "category" (Category.findOne or
\* Category.create throws) or "product" (a Product call throws)
ProductDataRow(row, thrown) ==
    LET pd     == ProductData(row, colMap)
        hasCat == PHasCategory(row, colMap)
        found  == IF hasCat THEN CatByName(categories, CatName(row, colMap)) ELSE {}
        failed == Caught(Counted(stats), PLigne(i, CellAt(row, colMap.nom)))
    IN  IF thrown = "category"
        THEN /\ hasCat
             /\ stats' = failed
             /\ UNCHANGED <<products, categories>>
        ELSE /\ categories' = IF hasCat /\ found = {}
                              THEN Append(categories, NewCategory(CatName(row, colMap)))
                              ELSE categories
             /\ \E c \in (IF ~hasCat THEN {None}
                          ELSE IF found = {} THEN {Some(Len(categories) + 1)}
                          ELSE {Some(k) : k \in found}) :
                  IF thrown = "product"
                  THEN /\ stats' = failed
                       /\ UNCHANGED products
                  ELSE \E e \in PExisting(products, pd) :
                          IF e # 0
                          THEN /\ products' = [products EXCEPT ![e] = PUpdate(@, pd, c)]
                               /\ stats' = [Counted(stats) EXCEPT !.updated = @ + 1]
                          ELSE /\ products' = Append(products, PCreate(pd, c))
                               /\ stats' = [Counted(stats) EXCEPT !.created = @ + 1]

\* lines 209-271: one iteration of the loop
ProductRow ==
    /\ pc = "scanP"
    /\ i < Len(data)
    /\ i' = i + 1
    /\ LET row == data[i + 1]
       IN  IF PIsHeaderRow(row)
           THEN /\ headerRowIndex' = i
                /\ colMap' = PMapColumns(colMap, RowStr(row), Len(row))
                /\ UNCHANGED <<stats, products, categories>>
           ELSE IF ~PIsDataRow(row, i, headerRowIndex, colMap)
           THEN UNCHANGED <<headerRowIndex, colMap, stats, products, categories>>
           ELSE /\ \E thrown \in {"no", "category", "product"} :
                      /\ thrown # "no" => MayThrow
                      /\ ProductDataRow(row, thrown)
                /\ UNCHANGED <<headerRowIndex, colMap>>
    /\ UNCHANGED <<data, pc, currentSite, results, now, workers, calls, aside>>

\* line 272: return stats
ProductReturn ==
    /\ pc = "scanP"
    /\ i = Len(data)
    /\ pc' = "idle"
    /\ results' = Append(results, stats)
    /\ UNCHANGED <<data, scan, now, store, calls, aside>>

InitP ==
    /\ data \in PGrids
    /\ pc = "idle"
    /\ i = 0
    /\ currentSite = DefaultSite
    /\ headerRowIndex = -1
    /\ colMap = PColMapInit
    /\ stats = StatsInit
    /\ results = <<>>
    /\ now = 0
    /\ workers = <<>>
    /\ \/ products = <<>> /\ categories = <<>>
       \/ products = <<ProductBefore>> /\ categories = <<CategoryBefore>>
    /\ calls = <<>>
    /\ salaries = <<>>
    /\ response = <<>>
    /\ page = <<>>

NextP == StartProducts \/ ProductRow \/ ProductReturn

SpecP == InitP /\ [][NextP]_vars

-----------------------------------------------------------------------------
(* Both imports: a worker sheet goes to the worker import and a product    *)
(* sheet to the product import, any number of times one after the other,  *)
(* on a store that starts empty                                            *)

IsWorkerSheet(g) == \A k \in 1..Len(g) : g[k] \in WRows
IsProductSheet(g) == \A k \in 1..Len(g) : g[k] \in PRows

Init == (InitW \/ InitP) /\ workers = <<>> /\ products = <<>>

Next ==
    \/ IsWorkerSheet(data) /\ StartWorkers
    \/ WorkerRow
    \/ WorkerReturn
    \/ IsProductSheet(data) /\ StartProducts
    \/ ProductRow
    \/ ProductReturn

Spec == Init /\ [][Next]_vars

\* An import that has started is not held for ever: nothing but the store
\* calls it awaits suspends the loop, and each of them returns or throws, so
\* the import goes on to its next row or returns.  Advance is what every
\* step of a running import does to its position; the steps themselves are
\* those of Next.
MaxLiveRows == 2   \* rows of the sheets of the fair specification

Advance ==
    /\ pc \in {"scanW", "scanP"}
    /\ \/ i' = i + 1 /\ pc' = pc
       \/ i' = i /\ pc' = "idle"

InitL == Init /\ Len(data) <= MaxLiveRows

SpecL == InitL /\ [][Next]_vars /\ WF_<<pc, i>>(Advance)

-----------------------------------------------------------------------------
(* The worker import on a sheet of a header and one worker whose salary or *)
(* birth-date cell is drawn from the cases below.  A case pairs the cell   *)
(* with the value it was written from.                                     *)

MaxSerialSpan == 12   \* serials this far on either side of 44197
MaxUnits == 3         \* salaries of 0..MaxUnits units, alone and after thousands

TwoDigits(n) == IF n < 10 THEN "0" \o NatToString(n) ELSE NatToString(n)
ThreeDigits(n) == IF n < 100 THEN "0" \o TwoDigits(n) ELSE NatToString(n)

\* n written with a space between the groups of three digits
RECURSIVE Grouped(_)
Grouped(n) ==
    IF n < 1000 THEN NatToString(n)
    ELSE Grouped(n \div 1000) \o " " \o ThreeDigits(n % 1000)

SalaryAmounts == UNION {{u, 3500 + u, 1200000 + 1000 * u} : u \in 0..MaxUnits}
SalaryCents == {0, 5, 50}

\* salaries written the French way, as plain text and as numbers
SalaryCases ==
    {[cell |-> S(Grouped(a) \o "," \o TwoDigits(c)), value |-> 100 * a + c,
      numeric |-> TRUE] : a \in SalaryAmounts, c \in SalaryCents}
    \cup {[cell |-> S(" " \o NatToString(a) \o " "), value |-> 100 * a,
           numeric |-> TRUE] : a \in SalaryAmounts}
    \cup {[cell |-> N(NatToString(a)), value |-> 100 * a, numeric |-> TRUE] :
              a \in SalaryAmounts \ {0}}
    \cup {[cell |-> S(t), value |-> 0, numeric |-> FALSE] :
              t \in {"abc", "N/A", ",", " ", "a 1"}}

Serials == {0, 1, 25569} \cup ((44197 - MaxSerialSpan)..(44197 + MaxSerialSpan))

SerialCases == {[cell |-> N(NatToString(n)), n |-> n] : n \in Serials}

\* birth dates written DD/MM/YYYY
TextDateCases ==
    {[cell |-> S(TwoDigits(d) \o "/" \o TwoDigits(m) \o "/" \o NatToString(y)),
      days |-> DaysFromCivil(y, m, d)] :
        d \in {1, 15, 28}, m \in {1, 2, 12}, y \in {1990, 2000, 2021}}

\* texts that are no date
MalformedDates == {S("abc"), S("ab/cd/efgh"), S("//"), S(" ")}

VRow(salaire, naissance) ==
    <<S("Awa"), S("Diop"), S("1234"), E, E, salaire, naissance>>

VRows ==
    {VRow(c.cell, E) : c \in SalaryCases}
    \cup {VRow(E, c.cell) : c \in SerialCases \cup TextDateCases}
    \cup {VRow(E, c) : c \in MalformedDates}

InitV ==
    /\ data \in {<<WHeader, r>> : r \in VRows}
    /\ pc = "idle"
    /\ i = 0
    /\ currentSite = DefaultSite
    /\ headerRowIndex = -1
    /\ colMap = WColMapInit
    /\ stats = StatsInit
    /\ results = <<>>
    /\ now = 0
    /\ workers \in {<<>>, <<WorkerBefore>>}
    /\ products = <<>>
    /\ categories = <<>>
    /\ calls = <<>>
    /\ salaries = <<>>
    /\ response = <<>>
    /\ page = <<>>

SpecV == InitV /\ [][NextW]_vars

-----------------------------------------------------------------------------
(* Concurrent worker imports.  The controller awaits the service, and the  *)
(* service awaits each store call: the imports of two requests interleave  *)
(* at the awaits of lines 143, 148, 154 and 163.  Each call has its own    *)
(* locals; existingWorker is null (None) or the record the lookup read.    *)

MaxCalls == 2     \* imports running at the same time
MaxCRows == 2     \* rows of the sheet they import

CRows == {WHeader, WFull, WNoCin}

CGrids == UNION {[1..n -> CRows] : n \in 0..MaxCRows}

CallInit ==
    [pc |-> "idle", i |-> 0, currentSite |-> WLocals.currentSite,
     headerRowIndex |-> WLocals.headerRowIndex, colMap |-> WLocals.colMap,
     stats |-> WLocals.stats, existingWorker |-> None]

\* the data of the row call c is on
CallData(c) == WorkerData(data[c.i + 1], c.colMap, c.currentSite, now)

\* CHeld looking the worker up again when the write is due
CHeld_Recheck(c, ws) ==
    LET found == WExisting(ws, CallData(c))
    IN  IF found = {0} THEN None
        ELSE LET k == CHOOSE k \in found : TRUE IN Some([id |-> k, rec |-> ws[k]])

\* line 153: the existingWorker the write goes by is the one the lookup of
\* lines 141-151 read, whatever the table holds by now
CHeld(c, ws) == c.existingWorker

\* lines 33-61
CStart(n) ==
    /\ calls[n].pc = "idle"
    /\ calls' = [calls EXCEPT ![n].pc = "scan"]
    /\ UNCHANGED <<data, pc, scan, results, now, store, aside>>

\* lines 63-151: one row up to the await of its lookup
CScan(n) ==
    LET c   == calls[n]
        row == data[c.i + 1]
    IN  /\ c.pc = "scan"
        /\ c.i < Len(data)
        /\ IF WIsSiteRow(row)
           THEN calls' = [calls EXCEPT ![n].currentSite = PotentialSite(row),
                                       ![n].i = c.i + 1]
           ELSE IF WIsHeaderRow(row)
           THEN calls' = [calls EXCEPT
                             ![n].headerRowIndex = c.i,
                             ![n].colMap = WMapColumns(c.colMap, RowStr(row), Len(row)),
                             ![n].i = c.i + 1]
           ELSE IF ~WIsDataRow(row, c.i, c.headerRowIndex, c.colMap)
           THEN calls' = [calls EXCEPT ![n].i = c.i + 1]
           ELSE IF WIsInnerSiteRow(row)
           THEN calls' = [calls EXCEPT ![n].currentSite = PotentialSite(row),
                                       ![n].i = c.i + 1]
           ELSE \E e \in WExisting(workers, CallData(c)) :
                   calls' = [calls EXCEPT
                                ![n].stats = Counted(c.stats),
                                ![n].existingWorker =
                                    IF e = 0 THEN None
                                    ELSE Some([id |-> e, rec |-> workers[e]]),
                                ![n].pc = "write"]
        /\ UNCHANGED <<data, pc, scan, results, now, store, aside>>

\* lines 153-169: the write of the row; the store may reject (rejected) a
\* record whose national ID another record has
CWrite(n, rejected) ==
    LET c    == calls[n]
        wd   == CallData(c)
        held == CHeld(c, workers)
    IN  /\ c.pc = "write"
        /\ IF held # None
           THEN /\ ~rejected
                /\ workers' = [workers EXCEPT ![held[1].id] =
                                  LET u == WUpdate(held[1].rec, wd)
                                  IN  [@ EXCEPT !.site_affectation = u.site_affectation,
                                                !.salaire_base = u.salaire_base,
                                                !.adresse = u.adresse,
                                                !.contact = u.contact,
                                                !.date_naissance = u.date_naissance]]
                /\ calls' = [calls EXCEPT
                                ![n].stats = [c.stats EXCEPT !.updated = @ + 1],
                                ![n].i = c.i + 1, ![n].pc = "scan"]
           ELSE IF rejected
           THEN /\ TruthyOpt(wd.cin) /\ WByCin(workers, wd.cin) # {}
                /\ calls' = [calls EXCEPT
                                ![n].stats = Caught(c.stats,
                                    WLigne(c.i, CellAt(data[c.i + 1], c.colMap.prenom),
                                           CellAt(data[c.i + 1], c.colMap.nom))),
                                ![n].i = c.i + 1, ![n].pc = "scan"]
                /\ UNCHANGED workers
           ELSE /\ workers' = Append(workers, wd)
                /\ calls' = [calls EXCEPT
                                ![n].stats = [c.stats EXCEPT !.created = @ + 1],
                                ![n].i = c.i + 1, ![n].pc = "scan"]
        /\ UNCHANGED <<data, pc, scan, results, now, products, categories, aside>>

\* line 173 and lines 7-8: the call returns its statistics
CReturn(n) ==
    /\ calls[n].pc = "scan"
    /\ calls[n].i = Len(data)
    /\ calls' = [calls EXCEPT ![n].pc = "done"]
    /\ results' = Append(results, calls[n].stats)
    /\ UNCHANGED <<data, pc, scan, now, store, aside>>

InitC ==
    /\ data \in CGrids
    /\ pc = "idle"
    /\ i = 0
    /\ currentSite = DefaultSite
    /\ headerRowIndex = -1
    /\ colMap = WColMapInit
    /\ stats = StatsInit
    /\ results = <<>>
    /\ now = 0
    /\ workers = <<>>
    /\ products = <<>>
    /\ categories = <<>>
    /\ calls = [n \in 1..MaxCalls |-> CallInit]
    /\ salaries = <<>>
    /\ response = <<>>
    /\ page = <<>>

NextC ==
    \E n \in 1..MaxCalls :
        \/ CStart(n)
        \/ CScan(n)
        \/ \E rejected \in BOOLEAN : CWrite(n, rejected)
        \/ CReturn(n)

SpecC == InitC /\ [][NextC]_vars

-----------------------------------------------------------------------------
(* The worker controller's importWorkers (worker.controller.js, route POST *)
(* /api/workers/import).  Its sheet is read without defval: a cell the     *)
(* sheet lacks is a hole of the row, and a blank line is an empty row.     *)

MaxCtlRows == 2    \* rows of a sheet the controller imports

\* a hole of the row: row[k] is undefined
U == [t |-> "u", v |-> "undefined"]

\* row[idx]: undefined past the end of the row
CtlCellAt(row, idx) == IF idx + 1 \in 1..Len(row) THEN row[idx + 1] ELSE U

\* the truthiness of row[idx]: undefined, '' and 0 are falsy
CtlTruthy(c) == c.t # "u" /\ Truthy(c)

\* lines 308-322: the locals before the loop
CtlDefaultSite == "SALIHATE CLEAN SERVICES"
CtlColMapInit ==
    [prenom |-> 1, nom |-> 2, ni |-> 3, tel |-> 4, adresse |-> 5, salaire |-> 6,
     naissance |-> 7]
CtlStatsInit == [count |-> 0, errors |-> <<>>]

\* line 329: row.filter(c => c !== null && c !== undefined && c !== '').length
RowContent(row) == Len(SelectSeq(row, LAMBDA c : c.t # "u" /\ c # E))

\* JSON.stringify of one cell: a text in quotes, a number as it is, null for
\* a hole
JsonCell(c) ==
    IF c.t = "u" THEN "null"
    ELSE IF c.t = "n" THEN c.v
    ELSE "\"" \o c.v \o "\""

RECURSIVE JsonCells(_, _)
JsonCells(row, k) ==
    IF k = 0 THEN ""
    ELSE IF k = 1 THEN JsonCell(row[1])
    ELSE JsonCells(row, k - 1) \o "," \o JsonCell(row[k])

\* line 333: JSON.stringify(row).toUpperCase()
CtlRowStr(row) == ToUpperCase("[" \o JsonCells(row, Len(row)) \o "]")

\* lines 326-330: an empty or blank row is passed over
CtlIsBlankRow(row) == Len(row) = 0 \/ RowContent(row) = 0

\* line 334
CtlIsHeaderRow(row) ==
    LET rowStr == CtlRowStr(row)
    IN  Includes(rowStr, "PRENOMS") /\ Includes(rowStr, "NOMS")

\* lines 337-344: the effect of one header cell on the column map; the tests
\* are not exclusive and each one that holds sets its index
CtlMapColumn(cm, cell, idx) ==
    LET val == Trim(ToUpperCase(JsString(cell)))
        c1 == IF Includes(val, "PRENOM") THEN [cm EXCEPT !.prenom = idx] ELSE cm
        c2 == IF Includes(val, "NOM") /\ ~Includes(val, "PRENOM")
              THEN [c1 EXCEPT !.nom = idx] ELSE c1
        c3 == IF Includes(val, "N.I") \/ Includes(val, "CNI")
              THEN [c2 EXCEPT !.ni = idx] ELSE c2
        c4 == IF Includes(val, "TELEPHONE") THEN [c3 EXCEPT !.tel = idx] ELSE c3
        c5 == IF Includes(val, "ADRESSE") THEN [c4 EXCEPT !.adresse = idx] ELSE c4
        c6 == IF Includes(val, "SALAIRE") THEN [c5 EXCEPT !.salaire = idx] ELSE c5
    IN  IF Includes(val, "ON") THEN [c6 EXCEPT !.naissance = idx] ELSE c6

\* line 336: row.forEach over the cells 1..k; forEach passes over the holes
RECURSIVE CtlMapColumns(_, _, _)
CtlMapColumns(cm, row, k) ==
    IF k = 0 THEN cm
    ELSE IF row[k].t = "u" THEN CtlMapColumns(cm, row, k - 1)
    ELSE CtlMapColumn(CtlMapColumns(cm, row, k - 1), row[k], k - 1)

\* line 354: row.find(c => typeof c === 'string' && c.trim().length > 2),
\* None when no cell is found
PotentialName(row) ==
    LET found == SelectSeq(row, LAMBDA c : c.t = "s" /\ Len(Trim(c.v)) > 2)
    IN  IF found = <<>> THEN None ELSE Some(found[1].v)

SitePrefix == "LES TECHNICIENS DE SURFACE DE"

\* line 361: s.replace(/LES TECHNICIENS DE SURFACE DE/i, ''), the first match
StripSitePrefix(s) ==
    LET n == Len(SitePrefix)
        at == {k \in 0..(Len(s) - n) : ToUpperCase(SubSeq(s, k + 1, k + n)) = SitePrefix}
    IN  IF at = {} THEN s
        ELSE LET k == CHOOSE a \in at : \A b \in at : a <= b
             IN  SubSeq(s, 1, k) \o SubSeq(s, k + n + 1, Len(s))

\* lines 351-357: the row is read as the name of a site
CtlIsSiteRow(row) ==
    LET rowStr == CtlRowStr(row)
        potentialName == PotentialName(row)
    IN  /\ RowContent(row) <= 2
        /\ ~Includes(rowStr, "PRENOMS") /\ ~Includes(rowStr, "NOMS")
        /\ potentialName # None
        /\ ToUpperCase(potentialName[1]) \notin {"PRENOMS", "NOMS", "SALAIRES"}

\* lines 358-362
CtlSite(row) ==
    LET site == Trim(PotentialName(row)[1])
    IN  IF Includes(ToUpperCase(site), SitePrefix) THEN Trim(StripSitePrefix(site))
        ELSE site

\* line 373: both name cells are truthy
CtlIsDataRow(row, cm) ==
    CtlTruthy(CtlCellAt(row, cm.nom)) /\ CtlTruthy(CtlCellAt(row, cm.prenom))

\* lines 381-396: the birth date, None (null) or Some(Date)
CtlBirthDate(c) ==
    IF ~CtlTruthy(c) THEN None
    ELSE IF c.t = "n" THEN Some(DateAt(ParseFloat(c.v).val - 2556900))
    ELSE LET parts == Split(c.v, "/")
         IN  IF Len(parts) = 3
             THEN Some(DateFromString(parts[3] \o "-" \o parts[2] \o "-" \o parts[1]))
             ELSE Some(DateFromString(c.v))

\* req.user.id
CtlUser == "admin"

\* lines 375-378, 408-421: workerData
CtlWorkerData(row, cm, site, today) ==
    LET text(idx) == IF CtlTruthy(CtlCellAt(row, idx))
                     THEN Some(Trim(JsString(CtlCellAt(row, idx)))) ELSE None
    IN  [nom |-> Trim(JsString(CtlCellAt(row, cm.nom))),
         prenom |-> Trim(JsString(CtlCellAt(row, cm.prenom))),
         cin |-> text(cm.ni),
         contact |-> text(cm.tel),
         adresse |-> text(cm.adresse),
         salaire_base |-> IF CtlTruthy(CtlCellAt(row, cm.salaire))
                          THEN ParseFloatOrZero(ReplaceFirstComma(
                                   RemoveSpaces(JsString(CtlCellAt(row, cm.salaire)))))
                          ELSE 0,
         site_affectation |-> site,
         date_naissance |-> CtlBirthDate(CtlCellAt(row, cm.naissance)),
         date_embauche |-> today,
         poste |-> "Technicien de surface",
         statut |-> "ACTIF",
         created_by |-> CtlUser]

\* lines 400-406: the records worker may be; {0} stands for null.  The table
\* is paranoid (line 235): findOne passes over the deleted workers
CtlExisting(ws, wd) ==
    LET live == {k \in 1..Len(ws) : ws[k].deleted_at = None}
        byCin == IF TruthyOpt(wd.cin) THEN WByCin(ws, wd.cin) \cap live ELSE {}
        byName == {k \in live : ws[k].nom = wd.nom /\ ws[k].prenom = wd.prenom}
    IN  IF byCin # {} THEN byCin
        ELSE IF byName # {} THEN byName
        ELSE {0}

\* line 424: worker.update(workerData) sets every field workerData names
CtlUpdate(w, wd) == [f \in DOMAIN w |-> IF f \in DOMAIN wd THEN wd[f] ELSE w[f]]

\* line 426: Worker.create(workerData); the new worker is not deleted
CtlCreate(wd) ==
    [f \in DOMAIN wd \cup {"deleted_at"} |-> IF f = "deleted_at" THEN None ELSE wd[f]]

\* line 432
CtlErreur(idx) == "Erreur ligne " \o NatToString(idx + 1) \o ": " \o ErrMessage

\* The sheets the controller imports: a numbering column, then the seven
\* columns of the preset column map
CtlHeader ==
    <<S("No"), S("PRENOMS"), S("NOMS"), S("N.I.N"), S("TELEPHONE"), S("ADRESSE"),
      S("SALAIRE"), S("DATE DE NAISSANCE")>>
CtlTitle == <<S("LISTE"), S("du"), S("personnel"), U, S("2024")>>
CtlBanner == <<S(" les techniciens de surface de Chantier Nord ")>>
CtlShort == <<N("3"), S("Ali")>>
CtlBlank == <<E, U>>
CtlEmpty == <<>>
CtlFull ==
    <<N("1"), S("Awa"), S("Diop"), S("1234"), S("77 100"), S("Dakar"),
      S("3 500,50"), N("44197")>>
CtlNoCin == <<N("2"), S(" Awa "), S("Diop"), U, N("77100")>>

CtlRows ==
    {CtlHeader, CtlTitle, CtlBanner, CtlShort, CtlBlank, CtlEmpty, CtlFull,
     CtlNoCin}

CtlGrids == UNION {[1..n -> CtlRows] : n \in 0..MaxCtlRows}

\* a worker entered through the application before any import
CtlWorkerBefore ==
    [nom |-> "Diop", prenom |-> "Awa", cin |-> Some("1234"),
     contact |-> Some("76000"), adresse |-> Some("Thies"), salaire_base |-> 200000,
     site_affectation |-> "Depot", date_naissance |-> Some(DateAt(1000000)),
     date_embauche |-> 0, poste |-> "Gardien", statut |-> "SUSPENDU",
     created_by |-> "rh", deleted_at |-> None]

\* lines 298-322: the request, up to the loop
StartImportWorkers ==
    /\ pc = "idle"
    /\ Len(results) < MaxRuns
    /\ pc' = "scanCtl"
    /\ i' = 0
    /\ currentSite' = CtlDefaultSite
    /\ colMap' = CtlColMapInit
    /\ stats' = CtlStatsInit
    /\ now' = now + 1
    /\ UNCHANGED <<data, headerRowIndex, results, store, calls, aside>>

\* lines 369-433: a worker row; thrown tells whether a store call throws
CtlDataRow(row, thrown) ==
    LET wd == CtlWorkerData(row, colMap, currentSite, now)
    IN  IF thrown
        THEN /\ stats' = Caught(stats, CtlErreur(i))
             /\ UNCHANGED workers
        ELSE /\ \E e \in CtlExisting(workers, wd) :
                   IF e # 0
                   THEN workers' = [workers EXCEPT ![e] = CtlUpdate(@, wd)]
                   ELSE workers' = Append(workers, CtlCreate(wd))
             /\ stats' = [stats EXCEPT !.count = @ + 1]

\* lines 324-434: one iteration of the loop
ImportWorkersRow ==
    /\ pc = "scanCtl"
    /\ i < Len(data)
    /\ i' = i + 1
    /\ LET row == data[i + 1]
       IN  IF CtlIsBlankRow(row)
           THEN UNCHANGED <<currentSite, colMap, stats, workers>>
           ELSE IF CtlIsHeaderRow(row)
           THEN /\ colMap' = CtlMapColumns(colMap, row, Len(row))
                /\ UNCHANGED <<currentSite, stats, workers>>
           ELSE IF CtlIsSiteRow(row)
           THEN /\ currentSite' = CtlSite(row)
                /\ UNCHANGED <<colMap, stats, workers>>
           ELSE IF ~CtlIsDataRow(row, colMap)
           THEN UNCHANGED <<currentSite, colMap, stats, workers>>
           ELSE /\ \E thrown \in BOOLEAN :
                      /\ thrown => MayThrow
                      /\ CtlDataRow(row, thrown)
                /\ UNCHANGED <<currentSite, colMap>>
    /\ UNCHANGED <<data, pc, headerRowIndex, results, now, products, categories,
                   calls, aside>>

\* line 436: the response carries count and errors
ImportWorkersReturn ==
    /\ pc = "scanCtl"
    /\ i = Len(data)
    /\ pc' = "idle"
    /\ results' = Append(results, stats)
    /\ UNCHANGED <<data, scan, now, store, calls, aside>>

InitCtl ==
    /\ data \in CtlGrids
    /\ pc = "idle"
    /\ i = 0
    /\ currentSite = CtlDefaultSite
    /\ headerRowIndex = -1
    /\ colMap = CtlColMapInit
    /\ stats = CtlStatsInit
    /\ results = <<>>
    /\ now = 0
    /\ workers \in {<<>>, <<CtlWorkerBefore>>}
    /\ products = <<>>
    /\ categories = <<>>
    /\ calls = <<>>
    /\ salaries = <<>>
    /\ response = <<>>
    /\ page = <<>>

NextCtl == StartImportWorkers \/ ImportWorkersRow \/ ImportWorkersReturn

SpecCtl == InitCtl /\ [][NextCtl]_vars

-----------------------------------------------------------------------------
(* The worker controller's other routes: createWorker, updateWorker,       *)
(* updateWorkerStatus and deleteWorker.  A request body is a record whose   *)
(* fields are None (the key is absent) or Some(value).                      *)

MaxRequests == 2   \* requests the controller answers, imports apart

\* the civil date of the day z days after 1970-01-01
CivilFromDays(z) ==
    LET zz  == z + 719468
        era == zz \div 146097
        doe == zz - era * 146097
        yoe == (doe - doe \div 1460 + doe \div 36524 - doe \div 146096) \div 365
        doy == doe - (365 * yoe + yoe \div 4 - yoe \div 100)
        mp  == (5 * doy + 2) \div 153
        m   == IF mp < 10 THEN mp + 3 ELSE mp - 9
    IN  [annee |-> yoe + era * 400 + (IF m <= 2 THEN 1 ELSE 0), mois |-> m,
         jour |-> doy - (153 * mp + 2) \div 5 + 1]

\* the statuses of a worker record
WorkerStatuts == {"ACTIF", "INACTIF", "SUSPENDU"}

\* the Worker table takes a record only with one of the three statuses and
\* a numeric base salary
WorkerAccepts(fields) ==
    /\ "statut" \in DOMAIN fields => fields.statut \in WorkerStatuts
    /\ "salaire_base" \in DOMAIN fields => ~ParseFloat(JsString(fields.salaire_base)).nan

\* the columns a new worker gets when the request names none
WorkerDefaults ==
    [nom |-> "", prenom |-> "", cin |-> None, contact |-> None, adresse |-> None,
     salaire_base |-> 0, site_affectation |-> "", date_naissance |-> None,
     date_embauche |-> 0, poste |-> "", statut |-> "ACTIF", created_by |-> "",
     deleted_at |-> None]

\* the keys a body holds, with their values
Given(body) == [f \in {g \in DOMAIN body : body[g] # None} |-> body[f][1]]

\* a column as the table keeps it: the base salary as a number, a column
\* that may be null as Some(value)
Stored(f, v) ==
    IF f = "salaire_base" THEN ParseFloat(JsString(v)).val
    ELSE IF f = "deleted_at" THEN Some(v)
    ELSE v

\* instance.update(fields) and Model.create(fields): the fields named are set
SetFields(w, fields) ==
    [f \in DOMAIN w |-> IF f \in DOMAIN fields THEN Stored(f, fields[f]) ELSE w[f]]

\* lines 11-14: { ...req.body, created_by: req.user.id }
CreateData(body) ==
    LET given == Given(body)
    IN  [f \in DOMAIN given \cup {"created_by"} |->
            IF f = "created_by" THEN CtlUser ELSE given[f]]

FirstSalary_MonthIndex(id, w, today) ==
    [worker_id |-> id, mois |-> CivilFromDays(today).mois - 1,
     annee |-> CivilFromDays(today).annee, salaire_base |-> w.salaire_base,
     primes |-> Some(0), deductions |-> Some(0), statut |-> "EN_ATTENTE",
     created_by |-> CtlUser, salaire_net |-> None]

\* lines 23-32: the salary of the current month
FirstSalary(id, w, today) ==
    [worker_id |-> id, mois |-> CivilFromDays(today).mois,
     annee |-> CivilFromDays(today).annee, salaire_base |-> w.salaire_base,
     primes |-> Some(0), deductions |-> Some(0), statut |-> "EN_ATTENTE",
     created_by |-> CtlUser, salaire_net |-> None]

\* Worker.findByPk(id): the table is paranoid, a deleted worker is not found
FindByPk(ws, id) == id \in 1..Len(ws) /\ ws[id].deleted_at = None

Answer(op, code, id) == [n |-> response.n + 1, op |-> op, code |-> code, id |-> id]

\* lines 10-37; fail names the store call that throws, if any
CreateWorker(body, fail) ==
    LET workerData == CreateData(body)
        worker == SetFields(WorkerDefaults, workerData)
        id == Len(workers) + 1
    IN  /\ response.n < MaxRequests
        /\ IF fail = "worker" \/ ~WorkerAccepts(workerData)
           THEN /\ response' = Answer("createWorker", 500, 0)
                /\ UNCHANGED <<workers, salaries>>
           ELSE /\ workers' = Append(workers, worker)
                /\ IF fail = "salary"
                   THEN /\ response' = Answer("createWorker", 500, id)
                        /\ UNCHANGED salaries
                   ELSE /\ salaries' = Append(salaries, FirstSalary(id, worker, now))
                        /\ response' = Answer("createWorker", 201, id)
        /\ UNCHANGED <<data, pc, scan, results, now, products, categories, calls, page>>

UpdateData_All(body) == Given(body)

\* line 160: const { created_by, deleted_at, ...updateData } = req.body
UpdateData(body) ==
    LET given == Given(body)
    IN  [f \in DOMAIN given \ {"created_by", "deleted_at"} |-> given[f]]

\* line 162: parseFloat(worker.salaire_base || 0)
PreviousBase(w) == w.salaire_base

\* line 168: parseFloat(updateData.salaire_base || 0)
NewBase(updateData) ==
    IF Truthy(updateData.salaire_base) THEN ParseFloat(JsString(updateData.salaire_base))
    ELSE [nan |-> FALSE, val |-> 0]

\* lines 167-169: the pending salaries are to be brought to the new base
BaseChanged(w, updateData) ==
    /\ "salaire_base" \in DOMAIN updateData
    /\ ~NewBase(updateData).nan
    /\ NewBase(updateData).val # PreviousBase(w)

\* lines 171-176: Salary.findAll, in the order of the table
PendingSalaries(ss, id) ==
    SelectSeq([k \in 1..Len(ss) |-> k],
              LAMBDA k : ss[k].worker_id = id /\ ss[k].statut = "EN_ATTENTE")

\* parseFloat(x) || 0 on a column that is None (null) or Some(number)
OrZero(x) == IF x = None THEN 0 ELSE x[1]

Rebased_StaleNet(salary, newBase) == [salary EXCEPT !.salaire_base = newBase]

\* lines 180-184
Rebased(salary, newBase) ==
    [salary EXCEPT !.salaire_base = newBase,
                   !.salaire_net = Some(newBase + OrZero(salary.primes)
                                            - OrZero(salary.deductions))]

\* lines 179-186: the first saved of the pending salaries are saved
SaveRebased(ss, pending, saved, newBase) ==
    [k \in 1..Len(ss) |->
        IF \E j \in 1..saved : pending[j] = k THEN Rebased(ss[k], newBase) ELSE ss[k]]

\* lines 152-195; fail is "no", "worker" (worker.update throws) or "salary"
\* (a salary.save throws, after saved of them went through)
UpdateWorker(id, body, fail, saved) ==
    /\ response.n < MaxRequests
    /\ IF ~FindByPk(workers, id)
       THEN /\ response' = Answer("updateWorker", 404, id)
            /\ UNCHANGED <<workers, salaries>>
       ELSE LET worker == workers[id]
                updateData == UpdateData(body)
                pending == PendingSalaries(salaries, id)
            IN  IF fail = "worker" \/ ~WorkerAccepts(updateData)
                THEN /\ response' = Answer("updateWorker", 500, id)
                     /\ UNCHANGED <<workers, salaries>>
                ELSE /\ workers' = [workers EXCEPT ![id] = SetFields(worker, updateData)]
                     /\ IF ~BaseChanged(worker, updateData)
                        THEN /\ response' = Answer("updateWorker", 200, id)
                             /\ UNCHANGED salaries
                        ELSE IF fail = "salary"
                        THEN /\ saved < Len(pending)
                             /\ salaries' = SaveRebased(salaries, pending, saved,
                                                        NewBase(updateData).val)
                             /\ response' = Answer("updateWorker", 500, id)
                        ELSE /\ salaries' = SaveRebased(salaries, pending, Len(pending),
                                                        NewBase(updateData).val)
                             /\ response' = Answer("updateWorker", 200, id)
    /\ UNCHANGED <<data, pc, scan, results, now, products, categories, calls, page>>

\* UpdateWorkerStatus's test letting any status through
StatutAllowed_Any(statut) == TRUE

\* line 205: ['ACTIF', 'INACTIF', 'SUSPENDU'].includes(statut); None is a body
\* without statut
StatutAllowed(statut) == statut # None /\ statut[1] \in {"ACTIF", "INACTIF", "SUSPENDU"}

\* lines 202-221; fail tells whether worker.save throws
UpdateWorkerStatus(id, statut, fail) ==
    /\ response.n < MaxRequests
    /\ IF ~StatutAllowed(statut)
       THEN /\ response' = Answer("updateWorkerStatus", 400, id)
            /\ UNCHANGED workers
       ELSE IF ~FindByPk(workers, id)
       THEN /\ response' = Answer("updateWorkerStatus", 404, id)
            /\ UNCHANGED workers
       ELSE IF fail \/ ~WorkerAccepts(Given([statut |-> statut]))
       THEN /\ response' = Answer("updateWorkerStatus", 500, id)
            /\ UNCHANGED workers
       ELSE /\ workers' = [workers EXCEPT ![id] = SetFields(@, Given([statut |-> statut]))]
            /\ response' = Answer("updateWorkerStatus", 200, id)
    /\ UNCHANGED <<data, pc, scan, results, now, products, categories, calls,
                   salaries, page>>

\* lines 228-240; fail tells whether worker.destroy throws
DeleteWorker(id, fail) ==
    /\ response.n < MaxRequests
    /\ IF ~FindByPk(workers, id)
       THEN /\ response' = Answer("deleteWorker", 404, id)
            /\ UNCHANGED workers
       ELSE IF fail
       THEN /\ response' = Answer("deleteWorker", 500, id)
            /\ UNCHANGED workers
       ELSE /\ workers' = [workers EXCEPT ![id].deleted_at = Some(now)]
            /\ response' = Answer("deleteWorker", 200, id)
    /\ UNCHANGED <<data, pc, scan, results, now, products, categories, calls,
                   salaries, page>>

\* the request bodies of the model
Body(statut, salaire_base, created_by, deleted_at) ==
    [nom |-> Some("Ba"), statut |-> statut, salaire_base |-> salaire_base,
     created_by |-> created_by, deleted_at |-> deleted_at]
BodyPlain == Body(None, None, None, None)
BodyRaise == Body(Some("INACTIF"), Some(N("250000")), None, None)
BodyRaiseText == Body(None, Some(S("300000.50")), Some("intrus"), Some(5))
BodyBadStatut == Body(Some("CONGE"), Some(N("250000")), None, None)
BodyBadSalary == Body(None, Some(S("abc")), None, None)
Bodies == {BodyPlain, BodyRaise, BodyRaiseText, BodyBadStatut, BodyBadSalary}

Statuts == {None, Some("SUSPENDU"), Some("CONGE")}

\* the tables before the requests: a worker with a pending salary, a paid one
\* and a pending one without primes, and a second worker with a pending salary
CrudWorker1 ==
    [CtlWorkerBefore EXCEPT !.statut = "ACTIF", !.salaire_base = 20000000]
CrudWorker2 ==
    [CtlWorkerBefore EXCEPT !.nom = "Fall", !.cin = Some("5678"), !.salaire_base = 15000000]
SalaryOf(id, mois, base, primes, deductions, statut) ==
    [worker_id |-> id, mois |-> mois, annee |-> 2023, salaire_base |-> base,
     primes |-> primes, deductions |-> deductions, statut |-> statut,
     created_by |-> "rh",
     salaire_net |-> Some(base + OrZero(primes) - OrZero(deductions))]
SalariesBefore ==
    <<SalaryOf(1, 11, 20000000, Some(500000), Some(100000), "EN_ATTENTE"),
      SalaryOf(1, 10, 20000000, Some(500000), Some(0), "PAYE"),
      SalaryOf(1, 12, 20000000, None, None, "EN_ATTENTE"),
      SalaryOf(2, 12, 15000000, Some(0), Some(250000), "EN_ATTENTE")>>

\* 2023-12-31; an import that starts moves the day on
Days == {19722}

CrudGrids == {<<CtlFull>>}

InitCrud ==
    /\ data \in CrudGrids
    /\ pc = "idle"
    /\ i = 0
    /\ currentSite = CtlDefaultSite
    /\ headerRowIndex = -1
    /\ colMap = CtlColMapInit
    /\ stats = CtlStatsInit
    /\ results = <<>>
    /\ now \in Days
    /\ workers = <<CrudWorker1, CrudWorker2>>
    /\ salaries = SalariesBefore
    /\ products = <<>>
    /\ categories = <<>>
    /\ calls = <<>>
    /\ response = [n |-> 0, op |-> "", code |-> 0, id |-> 0]
    /\ page = <<>>

\* the ids the requests name: the first worker and a worker that is not
Ids == {1, Len(workers) + 1}

NextCrud ==
    \/ \E body \in Bodies, fail \in {"no", "worker", "salary"} : CreateWorker(body, fail)
    \/ \E id \in Ids, body \in Bodies, fail \in {"no", "worker", "salary"} :
          \E saved \in (IF fail = "salary" THEN 0..1 ELSE {0}) :
              UpdateWorker(id, body, fail, saved)
    \/ \E id \in Ids, statut \in Statuts, fail \in BOOLEAN :
          UpdateWorkerStatus(id, statut, fail)
    \/ \E id \in Ids, fail \in BOOLEAN : DeleteWorker(id, fail)
    \/ StartImportWorkers
    \/ ImportWorkersRow
    \/ ImportWorkersReturn

SpecCrud == InitCrud /\ [][NextCrud]_vars

-----------------------------------------------------------------------------
(* The StockManagement page *)

MaxChanges == 3   \* changes of the month filter

\* the months the filter is set to
Months == {"2024-01", "2024-02", "2024-03"}

\* what productService.getMovements answers for the month of a request
MovementsOf(month) == Some(month)

\* lines 31-35, 65: the state of the component at its first render; requests
\* are the loadData calls so far, each with the month of its render and
\* whether it is in flight, done or failed
PageInit(month) ==
    [mounted |-> FALSE, selectedMonth |-> month, products |-> None,
     categories |-> None, movements |-> None, loading |-> TRUE, error |-> "",
     requests |-> <<>>]

\* lines 72-85: loadData up to its await: setLoading(true), setError('') and
\* the three requests, with the selectedMonth of the render it was made in
LoadDataStart(p) ==
    [p EXCEPT !.loading = TRUE, !.error = "",
              !.requests = Append(@, [month |-> p.selectedMonth, state |-> "flight"])]

\* lines 87-89, 96-98: the answers of request k have come: the three setters,
\* then setLoading(false)
LoadDataDone(p, k) ==
    [p EXCEPT !.products = Some("all"), !.categories = Some("all"),
              !.movements = MovementsOf(p.requests[k].month),
              !.loading = FALSE, !.requests[k].state = "done"]

\* lines 90-98: a request of loadData k was refused: setError, setLoading(false)
LoadDataFailed(p, k) ==
    [p EXCEPT !.error = "Impossible de charger les données de stock.",
              !.loading = FALSE, !.requests[k].state = "failed"]

\* lines 68-70: the effect after the first render
Mount ==
    /\ ~page.mounted
    /\ page' = LoadDataStart([page EXCEPT !.mounted = TRUE])
    /\ UNCHANGED <<data, pc, scan, results, now, store, calls, salaries, response>>

\* lines 783-789 and 68-70: the month input changes, the component renders
\* again and the effect on selectedMonth calls loadData; a month that is the
\* same as before renders nothing
ChangeMonth(month) ==
    /\ page.mounted
    /\ Len(page.requests) <= MaxChanges
    /\ month # page.selectedMonth
    /\ page' = LoadDataStart([page EXCEPT !.selectedMonth = month])
    /\ UNCHANGED <<data, pc, scan, results, now, store, calls, salaries, response>>

\* line 78: the promise of request k settles, in any order among the requests
Respond(k, ok) ==
    /\ page.mounted
    /\ k \in 1..Len(page.requests)
    /\ page.requests[k].state = "flight"
    /\ page' = IF ok THEN LoadDataDone(page, k) ELSE LoadDataFailed(page, k)
    /\ UNCHANGED <<data, pc, scan, results, now, store, calls, salaries, response>>

InitPage ==
    /\ data = <<>>
    /\ pc = "idle"
    /\ i = 0
    /\ currentSite = DefaultSite
    /\ headerRowIndex = -1
    /\ colMap = WColMapInit
    /\ stats = StatsInit
    /\ results = <<>>
    /\ now = 0
    /\ workers = <<>>
    /\ products = <<>>
    /\ categories = <<>>
    /\ calls = <<>>
    /\ salaries = <<>>
    /\ response = <<>>
    /\ \E month \in Months : page = PageInit(month)

NextPage ==
    \/ Mount
    \/ \E month \in Months : ChangeMonth(month)
    \/ \E k \in 1..(MaxChanges + 2), ok \in BOOLEAN : Respond(k, ok)

SpecPage == InitPage /\ [][NextPage]_vars

-----------------------------------------------------------------------------
(* Properties *)

Scanning == pc \in {"scanW", "scanP"}

\* the step processes the row at index i
RowStep == Scanning /\ i' = i + 1

\* the row is recognised as a header by the running import
IsHeaderRow(row) == IF pc = "scanW" THEN WIsHeaderRow(row) ELSE PIsHeaderRow(row)

\* no row of index lower than k is a header
NoHeaderBefore(k) == \A j \in 1..k : ~IsHeaderRow(data[j])

\* C1: while a row is processed that no header row precedes, the Worker,
\* Product and Category tables are left as they are and stats.total,
\* stats.created and stats.updated are 0 afterwards.
HeaderGating ==
    [][(RowStep /\ NoHeaderBefore(i))
         => /\ store' = store
            /\ stats'.total = 0 /\ stats'.created = 0 /\ stats'.updated = 0]_vars

\* a complete worker row and a complete product row have been passed over
\* because no header came before them
HeaderGatingWitness ==
    /\ Scanning /\ i >= 1 /\ NoHeaderBefore(i)
    /\ data[i] \in {WFull, PSavon}

\* the row has exactly one non-empty cell, of more than 3 characters once trimmed
SingleLongCell(row) ==
    /\ Len(NonEmptyCells(row)) = 1
    /\ Len(Trim(JsString(NonEmptyCells(row)[1]))) > 3

SingleCellText(row) == Trim(JsString(NonEmptyCells(row)[1]))

\* the text is one the site heuristic refuses
IsKeywordText(txt) ==
    ToUpperCase(txt) = "PRENOMS" \/ Includes(txt, "TECHNICIENS DE SURFACE")

\* C2 as claimed: after a header, every row with a single non-empty cell of
\* more than 3 characters sets currentSite to that text and writes and
\* counts no worker.
SingleCellSwitchesSite ==
    [][(pc = "scanW" /\ RowStep /\ headerRowIndex # -1 /\ SingleLongCell(data[i + 1]))
         => /\ currentSite' = SingleCellText(data[i + 1])
            /\ workers' = workers
            /\ stats' = stats]_vars

\* C2 as amended: such a row writes and counts no worker, and it sets
\* currentSite to its text when the text is neither PRENOMS (in any letter
\* case) nor contains TECHNICIENS DE SURFACE.
SingleCellSwitchesSiteUnlessKeyword ==
    [][(pc = "scanW" /\ RowStep /\ headerRowIndex # -1 /\ SingleLongCell(data[i + 1]))
         => /\ ~IsKeywordText(SingleCellText(data[i + 1]))
                 => currentSite' = SingleCellText(data[i + 1])
            /\ workers' = workers
            /\ stats' = stats]_vars

\* a banner row has just been read after the header and named the site
SingleCellWitness ==
    /\ pc = "scanW" /\ i >= 2
    /\ headerRowIndex # -1 /\ headerRowIndex < i - 1
    /\ data[i] = WBanner
    /\ currentSite = "Chantier Nord"

\* the site-banner rows of section 4.1: one non-empty cell, longer than the
\* threshold, that is no header keyword
IsBannerRow(row) == SingleLongCell(row) /\ ~IsKeywordText(SingleCellText(row))

\* the text of the last banner among the rows of index lower than k
RECURSIVE LastBannerSite(_)
LastBannerSite(k) ==
    IF k = 0 THEN DefaultSite
    ELSE IF IsBannerRow(data[k]) THEN SingleCellText(data[k])
    ELSE LastBannerSite(k - 1)

\* the ids of the workers the step creates or changes
Written == {k \in 1..Len(workers') : k > Len(workers) \/ workers'[k] # workers[k]}

\* C3: a worker created or updated while row i is processed gets the text of
\* the most recent banner row before row i as site_affectation, or SIEGE
\* when there is none; no other worker's site changes.
SiteOfLatestBanner ==
    [][(pc = "scanW" /\ RowStep)
         => \A k \in 1..Len(workers') :
               IF k \in Written
               THEN workers'[k].site_affectation = LastBannerSite(i)
               ELSE workers'[k].site_affectation = workers[k].site_affectation]_vars

\* the worker rows from row k of the grid on all carry a national ID, the
\* rows before k having left the header at hri and the column map cm
RECURSIVE WorkerRowsHaveCin(_, _, _)
WorkerRowsHaveCin(k, hri, cm) ==
    IF k > Len(data) THEN TRUE
    ELSE LET row == data[k]
         IN  IF WIsSiteRow(row) THEN WorkerRowsHaveCin(k + 1, hri, cm)
             ELSE IF WIsHeaderRow(row)
             THEN WorkerRowsHaveCin(k + 1, k - 1, WMapColumns(cm, RowStr(row), Len(row)))
             ELSE IF ~WIsDataRow(row, k - 1, hri, cm) \/ WIsInnerSiteRow(row)
             THEN WorkerRowsHaveCin(k + 1, hri, cm)
             ELSE /\ cm.cin # -1 /\ Truthy(CellAt(row, cm.cin))
                  /\ Trim(JsString(CellAt(row, cm.cin))) # ""
                  /\ WorkerRowsHaveCin(k + 1, hri, cm)

AllWorkerRowsHaveCin == WorkerRowsHaveCin(1, -1, WColMapInit)

\* import r and the import before it met no store failure
CleanRerun(r) == results[r - 1].errors = <<>> /\ results[r].errors = <<>>

\* an import returns after an import that met no store failure, having met
\* none itself
CleanRerunReturns ==
    /\ pc # "idle" /\ pc' = "idle"
    /\ Len(results) >= 1
    /\ results[Len(results)].errors = <<>> /\ stats.errors = <<>>

\* C4: when the worker import runs again on the same grid, every worker row
\* of which has a national ID, and no store call fails in either run, the
\* later run returns created = 0 and updated = total.
WorkerReimportOnlyUpdates ==
    [][(CleanRerunReturns /\ AllWorkerRowsHaveCin)
        => stats.created = 0 /\ stats.updated = stats.total]_vars

\* a second import has returned after updating the workers of its rows
WorkerReimportWitness ==
    /\ Len(results) >= 2 /\ CleanRerun(2) /\ AllWorkerRowsHaveCin
    /\ results[1].created >= 1
    /\ results[2].total >= 1

\* C5 as claimed, the counts: when the product import runs again on the same
\* grid and no store call fails, the later run reports created = 0 and
\* updated = total.
ProductReimportCounts ==
    \A r \in 2..Len(results) :
        CleanRerun(r) => results[r].created = 0 /\ results[r].updated = results[r].total

\* C5 as claimed: a product import that follows a product import without
\* store failure on the same grid reports created = 0 and updated = total
\* and creates no Category.
ProductReimportOnlyUpdates ==
    /\ []ProductReimportCounts
    /\ [][(pc = "scanP" /\ RowStep /\ Len(results) >= 1
            /\ results[Len(results)].errors = <<>> /\ stats'.errors = <<>>)
            => categories' = categories]_vars

\* C6: errors.length + created + updated <= total, after every row of a
\* running import and in every returned statistics object.
StatsOf(st) == Len(st.errors) + st.created + st.updated <= st.total

CountsWithinTotal ==
    /\ Scanning => StatsOf(stats)
    /\ \A r \in 1..Len(results) : StatsOf(results[r])

\* an import has counted a failed row and a written row
CountsWitness ==
    /\ Scanning
    /\ Len(stats.errors) = 1
    /\ stats.created + stats.updated >= 1

\* the name an error message of row i quotes
QuotedName ==
    IF pc = "scanW"
    THEN JsString(CellAt(data[i + 1], colMap.prenom)) \o " "
             \o JsString(CellAt(data[i + 1], colMap.nom))
    ELSE JsString(CellAt(data[i + 1], colMap.nom))

LinePrefix(idx) == "Ligne " \o NatToString(idx + 1) \o " ("

\* C7: a message appended to errors while row i is processed starts with
\* "Ligne ", i + 1 and the name cells of row i, and with the line number of
\* no other row; the earlier messages stay as they are.
ErrorNamesItsRow ==
    [][(RowStep /\ stats'.errors # stats.errors)
         => \E m \in {stats'.errors[Len(stats'.errors)]} :
               /\ stats'.errors = Append(stats.errors, m)
               /\ StartsWith(m, LinePrefix(i) \o QuotedName \o "): ")
               /\ \A j \in 0..(Len(data) - 1) :
                     j # i => ~StartsWith(m, LinePrefix(j))]_vars

\* the third row of a sheet has failed
ErrorWitness ==
    /\ Scanning /\ i = 3
    /\ stats.errors # <<>>
    /\ StartsWith(stats.errors[Len(stats.errors)], "Ligne 3 (")

\* the step imports row i as a worker without a store failure
WorkerWritten ==
    /\ pc = "scanW" /\ RowStep
    /\ stats'.total = stats.total + 1
    /\ stats'.errors = stats.errors

RowData == WorkerData(data[i + 1], colMap, currentSite, now)

SameCin(wd) == {k \in 1..Len(workers) : workers[k].cin = wd.cin}
SameNameAndContact(wd) ==
    {k \in 1..Len(workers) :
        /\ workers[k].prenom = wd.prenom /\ workers[k].nom = wd.nom
        /\ workers[k].contact = wd.contact}

\* C8 as claimed: a worker is created only when the lookup by national ID
\* and the match on name, surname and contact both miss.
CreatedOnlyWhenBothMiss ==
    [][(WorkerWritten /\ stats'.created = stats.created + 1)
         => /\ TruthyOpt(RowData.cin) => SameCin(RowData) = {}
            /\ TruthyOpt(RowData.contact) => SameNameAndContact(RowData) = {}]_vars

\* the lookup that applies to the row: by national ID when the row has one,
\* else by name, surname and contact when the row has a contact, else none
Applicable(wd) ==
    IF TruthyOpt(wd.cin) THEN SameCin(wd)
    ELSE IF TruthyOpt(wd.contact) THEN SameNameAndContact(wd)
    ELSE {}

\* C8 as amended: the match on name, surname and contact is tried only for
\* a row without national ID (and with a contact); a worker is created
\* exactly when the lookup that applies to the row finds nothing, and
\* otherwise a record that lookup finds is updated.
CreatedWhenOwnLookupMisses ==
    [][WorkerWritten
         => IF Applicable(RowData) = {}
            THEN /\ stats'.created = stats.created + 1
                 /\ workers' = Append(workers, RowData)
            ELSE /\ stats'.updated = stats.updated + 1
                 /\ Len(workers') = Len(workers)
                 /\ \A k \in 1..Len(workers) :
                       workers'[k] # workers[k] => k \in Applicable(RowData)]_vars

\* a row with an unknown national ID has created a second record for a
\* worker the store already held under the same name and contact
LookupWitness ==
    /\ pc = "scanW" /\ i >= 1 /\ data[i] = WOtherCin
    /\ Len(workers) >= 2
    /\ \E k \in 1..(Len(workers) - 1) :
          /\ workers[k].prenom = workers[Len(workers)].prenom
          /\ workers[k].nom = workers[Len(workers)].nom
          /\ workers[k].contact = workers[Len(workers)].contact
    /\ workers[Len(workers)].cin = Some("9999")

\* the cell of column c is absent, empty or blank
Blank(row, c) ==
    c = -1 \/ ~Truthy(CellAt(row, c)) \/ Trim(JsString(CellAt(row, c))) = ""

\* the salary cell is blank or parses to 0
NoSalary(row, c) ==
    \/ Blank(row, c)
    \/ ParseFloatOrZero(ReplaceFirstComma(RemoveSpaces(JsString(CellAt(row, c))))) = 0

\* C9: when the worker import updates an existing worker, the stored
\* adresse, contact, date_naissance and salaire_base stay whenever the
\* row's cell is empty (or the salary parses to 0), and nom, prenom, cin,
\* statut, poste and date_embauche stay in every case.
UpdateKeepsStoredFields ==
    [][(pc = "scanW" /\ RowStep /\ stats'.updated = stats.updated + 1)
         => /\ Len(workers') = Len(workers)
            /\ \A k \in 1..Len(workers) :
                 LET w == workers[k]
                     u == workers'[k]
                     row == data[i + 1]
                 IN  /\ u.nom = w.nom /\ u.prenom = w.prenom /\ u.cin = w.cin
                     /\ u.statut = w.statut /\ u.poste = w.poste
                     /\ u.date_embauche = w.date_embauche
                     /\ Blank(row, colMap.adresse) => u.adresse = w.adresse
                     /\ Blank(row, colMap.telephone) => u.contact = w.contact
                     /\ Blank(row, colMap.date_naissance)
                            => u.date_naissance = w.date_naissance
                     /\ NoSalary(row, colMap.salaire)
                            => u.salaire_base = w.salaire_base]_vars

\* the worker entered before the import has been matched by a row that has
\* only a national ID: it moved to the current site and kept the rest
UpdateWitness ==
    /\ pc = "scanW" /\ i >= 1 /\ data[i] = WCinOnly
    /\ stats.updated >= 1
    /\ workers # <<>>
    /\ workers[1] = [WorkerBefore EXCEPT !.site_affectation = currentSite]
    /\ currentSite # WorkerBefore.site_affectation

\* C10 as claimed: when the product import updates an existing product,
\* quantite_actuelle and statut stay, and code_produit, unite, seuil_alerte,
\* description and category_id stay when the row's cell is empty or the
\* column is absent.
ProductUpdateKeepsStoredFields ==
    [][(pc = "scanP" /\ RowStep /\ stats'.updated = stats.updated + 1)
         => /\ Len(products') = Len(products)
            /\ \A k \in 1..Len(products) :
                 LET q == products[k]
                     u == products'[k]
                     row == data[i + 1]
                 IN  /\ u.quantite_actuelle = q.quantite_actuelle
                     /\ u.statut = q.statut
                     /\ Blank(row, colMap.code) => u.code_produit = q.code_produit
                     /\ Blank(row, colMap.unite) => u.unite = q.unite
                     /\ Blank(row, colMap.seuil) => u.seuil_alerte = q.seuil_alerte
                     /\ Blank(row, colMap.description) => u.description = q.description
                     /\ Blank(row, colMap.categorie) => u.category_id = q.category_id]_vars

-----------------------------------------------------------------------------
(* Failures of store calls *)

\* the step processes row i and a store call throws
RowFails == RowStep /\ stats'.errors # stats.errors

\* every record of table t is in t2 with the same values
Kept(t, t2) == Len(t2) >= Len(t) /\ \A k \in 1..Len(t) : t2[k] = t[k]

CountsPerRow ==
    [][(RowStep /\ stats' # stats)
        => /\ stats'.total = stats.total + 1
           /\ IF stats'.errors # stats.errors
              THEN /\ Len(stats'.errors) = Len(stats.errors) + 1
                   /\ stats'.created = stats.created
                   /\ stats'.updated = stats.updated
                   /\ store' = store \/ categories' # categories
              ELSE /\ \/ stats'.created = stats.created + 1
                         /\ stats'.updated = stats.updated
                         /\ Len(workers') + Len(products') = Len(workers) + Len(products) + 1
                      \/ stats'.updated = stats.updated + 1
                         /\ stats'.created = stats.created
                         /\ Len(workers') + Len(products') = Len(workers) + Len(products)]_vars

\* one import has created from a row, updated from a row and failed on a row
CountsPerRowWitness ==
    /\ Scanning
    /\ stats.total = 3 /\ stats.created = 1 /\ stats.updated = 1
    /\ Len(stats.errors) = 1

\* C13: when a row fails, every record the tables held before it, those the
\* earlier rows of the import created or updated among them, is still there
\* with the same values.
PriorWritesStay ==
    [][RowFails
        => /\ Kept(workers, workers')
           /\ Kept(products, products')
           /\ Kept(categories, categories')]_vars

\* the third row fails after the second row created a worker, which is kept
PriorWritesWitness ==
    /\ pc = "scanW" /\ i = 3
    /\ stats.created = 1 /\ Len(stats.errors) = 1
    /\ StartsWith(stats.errors[1], "Ligne 3 (")
    /\ Len(workers) >= 1 /\ workers[Len(workers)].date_embauche = now

\* the required cell of row i is empty for the running import
RequiredEmpty ==
    LET row == data[i + 1]
    IN  IF pc = "scanW"
        THEN /\ colMap.prenom # -1 /\ colMap.nom # -1
             /\ ~Truthy(CellAt(row, colMap.prenom)) \/ ~Truthy(CellAt(row, colMap.nom))
        ELSE colMap.nom # -1 /\ ~Truthy(CellAt(row, colMap.nom))

\* C14: a row after the header whose required cell (name or surname for a
\* worker, name for a product) is empty changes neither the statistics nor
\* any table.
RequiredCellSkips ==
    [][(RowStep /\ headerRowIndex # -1 /\ RequiredEmpty)
        => stats' = stats /\ store' = store]_vars

\* a row without surname has been passed after the header
RequiredCellWitness ==
    /\ pc = "scanW" /\ i >= 2
    /\ headerRowIndex # -1 /\ headerRowIndex < i - 1
    /\ data[i] = WShort
    /\ stats = StatsInit

-----------------------------------------------------------------------------
(* Salary and birth-date cells *)

\* the step creates a worker from row i
WorkerCreated == WorkerWritten /\ stats'.created = stats.created + 1

\* the step updates a worker from row i
WorkerUpdated == WorkerWritten /\ stats'.updated = stats.updated + 1

\* C15: the salary a row gives is the number its salary cell shows once the
\* whitespace is removed and the comma read as the decimal separator, and 0
\* when the cell shows no number; the row is created with it, or updated
\* with it when it is above 0, and nothing is added to errors for it.
SalaryRead ==
    [][\A c \in SalaryCases :
          (pc = "scanW" /\ RowStep /\ data[i + 1] = VRow(c.cell, E))
             => /\ RowData.salaire_base = c.value
                /\ \/ WorkerCreated
                   \/ WorkerUpdated
                   \/ stats'.errors
                        = Append(stats.errors, WLigne(i, S("Awa"), S("Diop")))
                /\ WorkerCreated => workers'[Len(workers')].salaire_base = c.value
                /\ WorkerUpdated
                     => \A k \in WExisting(workers, RowData) :
                           workers'[k].salaire_base
                             = IF c.value > 0 THEN c.value ELSE workers[k].salaire_base]_vars

\* the row whose salary cell reads "3 500,50" has created a worker paid
\* 3500.50
SalaryWitness ==
    /\ pc = "scanW" /\ i = 2
    /\ data[2] = VRow(S("3 500,50"), E)
    /\ stats.created = 1 /\ stats.errors = <<>>
    /\ workers[Len(workers)].salaire_base = 350050

\* the birth date the step writes
WrittenBirthDate ==
    IF WorkerCreated THEN {workers'[Len(workers')].date_naissance}
    ELSE {workers'[k].date_naissance : k \in WExisting(workers, RowData)}

\* the date lying days after 1970-01-01
DayOf(days) == Some(DateAt(100 * days))

\* the row's serial n is written as the day n - 25569
SerialRead(c) ==
    (pc = "scanW" /\ RowStep /\ WorkerWritten /\ data[i + 1] = VRow(E, c.cell))
        => /\ WrittenBirthDate = {DayOf(c.n - 25569)}
           /\ c.n = 44197 => WrittenBirthDate = {DayOf(DaysFromCivil(2021, 1, 1))}

\* C16 as claimed: every integer serial n is read as the date n - 25569 days
\* after 1970-01-01, and 44197 as 2021-01-01.
EverySerialGivesItsDay == [][\A c \in SerialCases : SerialRead(c)]_vars

\* C16: every integer serial n other than 0 is read as the date n - 25569
\* days after 1970-01-01, and 44197 as 2021-01-01; the serial 0 is read as
\* an empty cell.
SerialGivesItsDay ==
    [][\A c \in SerialCases :
          IF c.n # 0 THEN SerialRead(c)
          ELSE (pc = "scanW" /\ RowStep /\ WorkerCreated /\ data[i + 1] = VRow(E, c.cell))
                  => WrittenBirthDate = {None}]_vars

\* a worker has been created from the serial 44197 and is born 2021-01-01
SerialWitness ==
    /\ pc = "scanW" /\ i = 2
    /\ data[2] = VRow(E, N("44197"))
    /\ stats.created = 1
    /\ workers[Len(workers)].date_naissance = DayOf(DaysFromCivil(2021, 1, 1))

\* C17 as claimed: the birth date read from a cell is null or a valid date,
\* and null for every text that is no DD/MM/YYYY date.
BirthDateNullOrValid ==
    [][(pc = "scanW" /\ RowStep /\ stats'.total = stats.total + 1)
        => /\ RowData.date_naissance = None \/ RowData.date_naissance[1].valid
           /\ CellAt(data[i + 1], colMap.date_naissance) \in MalformedDates
                 => RowData.date_naissance = None]_vars

-----------------------------------------------------------------------------
(* Concurrent imports *)

\* call n creates a worker in this step
CCreates(n) ==
    /\ calls[n].pc = "write" /\ calls'[n].pc = "scan"
    /\ calls'[n].stats.created = calls[n].stats.created + 1

\* call n leaves its write in this step without a rejection by the store
CWrites(n) ==
    /\ calls[n].pc = "write" /\ calls'[n].pc = "scan"
    /\ calls'[n].stats.errors = calls[n].stats.errors

\* C18: nothing guards the concurrent imports of a grid against each other:
\* a call whose lookup missed creates its worker when its write is due,
\* whatever the table has come to hold since the lookup, unless the store
\* rejects the record.
CreatesAfterMiss ==
    [][\A n \in 1..MaxCalls :
          (CWrites(n) /\ calls[n].existingWorker = None)
             => /\ CCreates(n)
                /\ workers' = Append(workers, CallData(calls[n]))]_vars

\* two imports of a sheet with one worker have both returned created = 1
\* and the table holds two workers with the national ID of that row
DuplicateWitness ==
    /\ data = <<WHeader, WFull>>
    /\ \A n \in 1..2 : calls[n].pc = "done" /\ calls[n].stats.created = 1
    /\ Len(workers) = 2
    /\ workers[1].cin = Some("1234") /\ workers[2].cin = Some("1234")

-----------------------------------------------------------------------------
(* Termination *)

StatsFields == {"total", "created", "updated", "errors"}

\* C19: an import that has read its grid visits the rows one by one in
\* increasing order, each once, and then returns a statistics object
\* {total, created, updated, errors}, whatever the rows hold and whichever
\* store calls fail.
Terminates ==
    /\ [](Scanning => i <= Len(data))
    /\ \A n \in 0..(MaxRuns - 1) :
          (Scanning /\ Len(results) = n) ~> (pc = "idle" /\ Len(results) = n + 1)
    /\ [][Scanning
            => \/ /\ i < Len(data) /\ i' = i + 1
                  /\ pc' = pc /\ results' = results
               \/ /\ i = Len(data) /\ pc' = "idle"
                  /\ results' = Append(results, stats)
                  /\ DOMAIN stats = StatsFields]_vars

\* an import has returned its statistics after a row failed
TerminatesWitness ==
    /\ pc = "idle" /\ Len(results) = 1 /\ Len(data) = 2
    /\ results[1].total = 1 /\ Len(results[1].errors) = 1

-----------------------------------------------------------------------------
(* The controller's import before its first header row *)

\* the row at index i is followed by a header row and no header row comes
\* before it or is it
BeforeFirstHeader ==
    /\ \A j \in 1..(i + 1) : ~CtlIsHeaderRow(data[j]) \/ CtlIsBlankRow(data[j])
    /\ \E h \in (i + 2)..Len(data) : CtlIsHeaderRow(data[h]) /\ ~CtlIsBlankRow(data[h])

\* C20: in the controller's importWorkers, a step on a row that precedes the
\* first row recognised as a header creates no worker and updates none
CtlHeaderGating ==
    [][(pc = "scanCtl" /\ i' = i + 1 /\ BeforeFirstHeader) => workers' = workers]_vars

-----------------------------------------------------------------------------
(* The status of a product *)

\* the status the quantity and the alert threshold give, as the stock page
\* tells critical and low products apart
StatutOf(quantite, seuil) ==
    IF quantite <= 0 THEN "RUPTURE"
    ELSE IF quantite <= seuil THEN "ALERTE"
    ELSE "OK"

\* the products a step of the product import creates or changes
ProductsWritten ==
    {k \in 1..Len(products') : k > Len(products) \/ products'[k] # products[k]}

\* C21: every product record the product import writes, on create and on
\* update, has the status its quantity and alert threshold give
ProductStatusDerived ==
    [][pc = "scanP"
         => \A k \in ProductsWritten :
               products'[k].statut
                   = StatutOf(products'[k].quantite_actuelle, products'[k].seuil_alerte)]_vars

-----------------------------------------------------------------------------
(* The worker controller's routes *)

\* the controller has answered the request op with this step
Answers(op) == response' # response /\ response'.op = op

AskedBase(body) == ParseFloat(JsString(body.salaire_base[1]))

\* C24: when updateWorker is given a numeric salaire_base other than the
\* worker's and every save succeeds, every EN_ATTENTE salary of that worker
\* has the new base and a net of base + primes - deductions
PendingFollowBase ==
    [][(Answers("updateWorker") /\ response'.code = 200)
          => \A body \in Bodies :
                (/\ body.salaire_base # None
                 /\ ~AskedBase(body).nan
                 /\ AskedBase(body).val # workers[response'.id].salaire_base
                 /\ UpdateWorker(response'.id, body, "no", 0))
                    => \A k \in 1..Len(salaries') :
                          (/\ salaries'[k].worker_id = response'.id
                           /\ salaries'[k].statut = "EN_ATTENTE")
                             => /\ salaries'[k].salaire_base = AskedBase(body).val
                                /\ salaries'[k].salaire_net =
                                      Some(AskedBase(body).val + OrZero(salaries'[k].primes)
                                             - OrZero(salaries'[k].deductions))]_vars

\* the first worker was raised to 300000.50: the pending salary with primes
\* and the one without follow, the paid one does not
PendingFollowWitness ==
    /\ response.op = "updateWorker" /\ response.code = 200 /\ response.id = 1
    /\ workers[1].salaire_base = 30000050
    /\ salaries[1].salaire_base = 30000050 /\ salaries[1].salaire_net = Some(30400050)
    /\ salaries[3].salaire_base = 30000050 /\ salaries[3].salaire_net = Some(30000050)
    /\ salaries[2].salaire_base = 20000000

\* C25: after createWorker succeeds there is a salary of the new worker for
\* the current month and year, EN_ATTENTE, with the worker's base salary,
\* primes 0 and deductions 0
SalaryOfTheMonth ==
    [][(Answers("createWorker") /\ response'.code = 201)
          => \E k \in 1..Len(salaries') :
               LET s == salaries'[k]
                   next == IF s.mois = 12 THEN DaysFromCivil(s.annee + 1, 1, 1)
                           ELSE DaysFromCivil(s.annee, s.mois + 1, 1)
               IN  /\ s.worker_id = response'.id
                   /\ response'.id = Len(workers')
                   /\ s.mois \in 1..12
                   /\ DaysFromCivil(s.annee, s.mois, 1) <= now /\ now < next
                   /\ s.statut = "EN_ATTENTE"
                   /\ s.salaire_base = workers'[response'.id].salaire_base
                   /\ s.primes = Some(0) /\ s.deductions = Some(0)]_vars

\* a worker created in January 2024 with a base of 250000 has that salary
SalaryOfTheMonthWitness ==
    /\ response.op = "createWorker" /\ response.code = 201
    /\ Len(salaries) = Len(SalariesBefore) + 1
    /\ salaries[Len(salaries)].worker_id = Len(workers)
    /\ salaries[Len(salaries)].mois = 1 /\ salaries[Len(salaries)].annee = 2024
    /\ salaries[Len(salaries)].salaire_base = 25000000

\* C27: updateWorker changes no salary that is not EN_ATTENTE, no salary of
\* another worker, and neither created_by nor deleted_at of the worker,
\* whatever the body holds
UpdateKeepsTheRest ==
    [][Answers("updateWorker")
          => /\ Len(salaries') = Len(salaries)
             /\ \A k \in 1..Len(salaries) :
                   (salaries[k].statut # "EN_ATTENTE" \/ salaries[k].worker_id # response'.id)
                      => salaries'[k] = salaries[k]
             /\ Len(workers') = Len(workers)
             /\ \A k \in 1..Len(workers) :
                   /\ workers'[k].created_by = workers[k].created_by
                   /\ workers'[k].deleted_at = workers[k].deleted_at]_vars

\* a body holding created_by and deleted_at has raised the first worker: the
\* two columns, the paid salary and the other worker's salary are as before
UpdateKeepsWitness ==
    /\ response.op = "updateWorker" /\ response.code = 200 /\ response.id = 1
    /\ workers[1].salaire_base = 30000050
    /\ workers[1].created_by = CrudWorker1.created_by /\ workers[1].deleted_at = None
    /\ salaries[2] = SalariesBefore[2] /\ salaries[4] = SalariesBefore[4]
    /\ salaries[1] # SalariesBefore[1]

\* C29: createWorker is all or nothing: a step that stores the worker stores
\* its salary of the month too
CreateAllOrNothing ==
    [][(Answers("createWorker") /\ Len(workers') > Len(workers))
          => \E k \in 1..Len(salaries') : salaries'[k].worker_id = Len(workers')]_vars

-----------------------------------------------------------------------------
(* The header rows of the imports *)

\* the header cell colName names the column f of the worker sheet
WKeywordCell(f, colName) ==
    CASE f = "prenom" -> Includes(colName, "PRENOM")
      [] f = "nom" -> colName = "NOMS"
      [] f = "cin" -> Includes(colName, "N.I") \/ Includes(colName, "CIN")
      [] f = "telephone" -> Includes(colName, "TELEPHONE")
      [] f = "adresse" -> Includes(colName, "ADRESSE")
      [] f = "salaire" -> Includes(colName, "SALAIRE")
      [] f = "date_naissance" -> Includes(colName, "NAISSANCE")

\* C23: when importWorkersFromExcel recognises a header row, the row is
\* neither counted nor written, and every index of the column map refers to
\* a keyword cell of that row: no index of an earlier header stays
HeaderMapsItsCells ==
    [][(pc = "scanW" /\ i' = i + 1 /\ headerRowIndex' = i)
          => /\ stats' = stats /\ workers' = workers
             /\ \A f \in DOMAIN colMap' :
                   colMap'[f] # -1
                      => /\ colMap'[f] < Len(data[i + 1])
                         /\ WKeywordCell(f, RowStr(data[i + 1])[colMap'[f] + 1])]_vars

\* the header cell of the date of birth
IsBirthHeader(cell) == cell.t = "s" /\ Includes(Trim(ToUpperCase(cell.v)), "NAISSANCE")

\* C26: when importWorkers of the worker controller recognises a header row,
\* colMap.naissance is the index of the DATE DE NAISSANCE cell of the row and
\* is set to the index of no other cell
BirthColumnFromHeader ==
    [][(/\ pc = "scanCtl" /\ i' = i + 1
        /\ ~CtlIsBlankRow(data[i + 1]) /\ CtlIsHeaderRow(data[i + 1]))
          => LET row == data[i + 1]
             IN  /\ \A k \in 1..Len(row) :
                       IsBirthHeader(row[k]) => colMap'.naissance = k - 1
                 /\ colMap'.naissance # colMap.naissance
                       => /\ colMap'.naissance < Len(row)
                          /\ IsBirthHeader(row[colMap'.naissance + 1])]_vars

\* line 67: a cell the import counts among the non-empty cells of its row
NonEmptyCell(c) == Truthy(c) /\ Trim(JsString(c)) # ""

\* the row comes after a header and its name and surname cells, at the
\* mapped indices, are non-empty
NamedRow(row) ==
    /\ headerRowIndex # -1
    /\ colMap.prenom # -1 /\ colMap.nom # -1
    /\ NonEmptyCell(CellAt(row, colMap.prenom))
    /\ NonEmptyCell(CellAt(row, colMap.nom))

\* C28: in importWorkersFromExcel a row after the header whose name and
\* surname cells are non-empty is counted in total and leaves currentSite
\* as it is
NamedRowsCounted ==
    [][(pc = "scanW" /\ i' = i + 1 /\ NamedRow(data[i + 1]))
          => stats'.total = stats.total + 1 /\ currentSite' = currentSite]_vars

\* C28, amended: in importWorkersFromExcel a row after the header that is
\* not itself a header row and whose name and surname cells are non-empty is
\* counted in total and leaves currentSite as it is
NamedDataRowsCounted ==
    [][(pc = "scanW" /\ i' = i + 1 /\ NamedRow(data[i + 1]) /\ ~WIsHeaderRow(data[i + 1]))
          => stats'.total = stats.total + 1 /\ currentSite' = currentSite]_vars

\* after a header and a banner, the row of Awa Diop was counted and the site
\* is still the banner's
NamedRowsWitness ==
    /\ pc = "scanW" /\ i = 3
    /\ data = <<WHeader, WBanner, WFull>>
    /\ stats.total = 1
    /\ currentSite = "Chantier Nord"

-----------------------------------------------------------------------------
(* The StockManagement page *)

\* every loadData call so far has been answered
LoadsSettled ==
    /\ page.mounted
    /\ \A k \in 1..Len(page.requests) : page.requests[k].state = "done"

\* C30: once every loadData request has completed, the movements shown are
\* those returned for the selected month, however often the month was changed
ShowsLastMonth ==
    LoadsSettled => page.movements = MovementsOf(page.selectedMonth)

====
